---- MODULE Spec2Model ----
(***************************************************************************)
(* Zaphod: synchronisation of a Canvas course with a local flat-file tree. *)
(*                                                                         *)
(* The remote course is a set of lists (pages, assignments, modules with   *)
(* their items, rubrics, rubric associations); the local tree is the list  *)
(* of content folders under pages/.  Every script is a sequence of steps,  *)
(* one per remote call or per loop iteration; a remote call that can raise *)
(* has both outcomes.                                                      *)
(***************************************************************************)
EXTENDS Integers, Sequences, FiniteSets, TLC

VARIABLES
    local,          \* the content folders under pages/, in rglob order
    pages,          \* remote pages, in listing order: [id, name]
    assignments,    \* remote assignments, in listing order: [id, name]
    args,           \* the prune script's parsed flags: [apply, include_assignments]
    pc,             \* position of the running script
    extra,          \* prune: [pages, assignments], the extra name sets
    iter,           \* prune: the rest of the listing being iterated
    deleteCalls,    \* prune: the delete calls issued, [kind, id, name]
    deleteFailed,   \* prune: the delete calls that raised
    reported,       \* prune: what was printed, [kind, name]
    listings,       \* prune: how often each remote listing was requested so far,
                    \* [pages, assignments]
    files,          \* remote files, in listing order: [id, name] (name: the filename)
    modules,        \* remote modules, in listing order: [name, items]
    fidx,           \* sync_modules: index of the content folder being processed
    mrest,          \* sync_modules: the module names of the folder still to do
    obj,            \* sync_modules: the item being placed, [type, key, title, indent]
    modCalls,       \* sync_modules: mutating calls of this run, [create_module, create_item]
    warned,         \* sync_modules: indexes of the folders warned about in this run
    held,           \* sync_modules: index of the module object ensure_module
                    \* returned, between module_has_item and create_module_item
    external,       \* what someone else did to the modules during the run:
                    \* [adds, raced], the number of items added and whether one
                    \* came between a membership check and its create call
    run,            \* number of the run of the script
    entry,          \* how the run started: [prevDone, prevClean, renamed]: the run
                    \* before went through all folders; it did so with no failed
                    \* call or folder; renamed as since
    rubrics,        \* remote rubrics, in creation order: [id, title]
    assocs,         \* remote rubric associations, in creation order
    job,            \* the rubric upload job last submitted: [id, state, rubric_id]
    strategy,       \* which sync_rubrics script the deployment runs
    ridx,           \* sync_rubrics: index of the assignment folder being processed
    target,         \* sync_rubrics: the assignment found for the folder and the rubric
                    \* id taken from the upload job, [id, name, rubric_id]
    elapsed,        \* sync_rubrics: time.time() - start of the poll loop, in seconds
    rubCalls,       \* sync_rubrics: mutating calls of this run, [create, upload, assoc]
    result,         \* sync_rubrics: how each folder of this run ended, in order
    rubStart,       \* sync_rubrics: the number of remote rubrics when the run began
    env,            \* the watcher's environment: [prune, apply, assignments]
    pipe,           \* the pipeline run's steps so far: [script, exit]
    request,        \* sync_rubrics: what the create or upload request just sent
                    \* carries, [criteria, association, warnings]
    outcome_map,    \* sync_rubrics: outcome code -> outcome id, 0 for no entry
    resp,           \* sync_rubrics: the status of the response to the create
                    \* request just sent, 0 once the next folder is looked at
    events,         \* the watcher: the file events the observer has queued
    children,       \* the watcher: the child processes running, [run, script]
    present,        \* the watcher: the scripts that exist as files
    stepno,         \* the watcher: the step of run_pipeline that comes next
    cfg,            \* the process-level inputs of a script: [course_id, defaults,
                    \* cred_path, cred_file, pages_dir]
    script,         \* the script being started
    step,           \* which of the script's start-up steps comes next
    calls,          \* the remote calls the script has issued since it started
    since           \* position in content_dirs of the folder whose display title was
                    \* changed since the last run ended, 0 if none was

contentVars == <<pages, assignments, files>>

rubricRemote == <<rubrics, assocs, job>>

remoteVars == <<contentVars, modules, rubricRemote>>

rubVars == <<strategy, ridx, target, elapsed, rubCalls, result, rubStart, resp, request,
             outcome_map>>

startVars == <<cfg, script, step, calls>>

watchVars == <<events, children, present, stepno>>

pipeVars == <<env, pipe, startVars, watchVars>>

pruneVars == <<args, extra, iter, deleteCalls, deleteFailed, reported, listings>>

modVars == <<fidx, mrest, obj, modCalls, warned, held, external>>

runVars == <<run, entry, since>>

vars == <<local, pc, remoteVars, pruneVars, modVars, runVars, rubVars, pipeVars>>

----------------------------------------------------------------------------
(* Bounds of the model *)

MaxFolders == 2
MaxPages == 2
MaxAssignments == 1
MaxContentDirs == 2
MaxRuns == 2

MaxEvents == 2

----------------------------------------------------------------------------
(* Helpers *)

Range(s) == {s[i] : i \in DOMAIN s}

SeqsUpTo(S, n) == UNION {[1..k -> S] : k \in 0..n}

\* str.lower() on the strings of the model
Lower(s) ==
    CASE s = "Page" -> "page"
      [] s = "Assignment" -> "assignment"
      [] s = "File" -> "file"
      [] s = "Link" -> "link"
      [] s = "Intro" -> "intro"
      [] s = "Quiz" -> "quiz"
      [] OTHER -> s

\* The rubric file of a folder (st: "none" no rubric.yaml/yml/json, "bad" a
\* file the parser rejects, "ok" parsed) and the parsed spec; a title ""
\* stands for an absent title, an association of 0 for a spec without
\* association.id.
NoRubric == [st |-> "none", title |-> "", criteria |-> <<>>, association |-> 0]

\* A content folder: its extension, its meta.json (st: "ok" parsed, "bad"
\* rejected by json.load, "missing" no such file) and the fields of the parsed
\* meta.json; "" stands for an absent key, <<>> for absent modules.
Blank ==
    [ext |-> "page", st |-> "ok", type |-> "", name |-> "", modules |-> <<>>,
     indent |-> 0, filename |-> "", title |-> "", external_url |-> "",
     rubric |-> NoRubric]

\* A parsed meta.json with a type and a name.
Meta(t, n) == [Blank EXCEPT !.type = t, !.name = n]

\* A meta.json that json.loads rejects.
BadMeta == [Blank EXCEPT !.st = "bad"]

\* A folder without meta.json.
NoMeta == [Blank EXCEPT !.st = "missing"]

\* Remote objects are numbered in listing order.
Numbered(names) == [i \in DOMAIN names |-> [id |-> i, name |-> names[i]]]

----------------------------------------------------------------------------
(* prune_canvas_content.py *)

\* load_local_names: the names of the parsable meta.json files with a name,
\* by lower-cased type.
load_local_names ==
    LET ok == {i \in DOMAIN local : local[i].st = "ok" /\ local[i].name # ""}
    IN  [pages |-> {local[i].name : i \in {j \in ok : Lower(local[j].type) = "page"}},
         assignments |->
             {local[i].name : i \in {j \in ok : Lower(local[j].type) = "assignment"}}]

load_canvas_sets ==
    [pages |-> {p.name : p \in Range(pages)},
     assignments |-> {a.name : a \in Range(assignments)}]

\* A mutant of ExtraNames: names compared after normalising their case.
ExtraNamesNormalised(remote_names, local_names) ==
    {n \in remote_names : Lower(n) \notin {Lower(m) : m \in local_names}}

\* extra = canvas names - local names (set difference on exact strings)
ExtraNames(remote_names, local_names) == remote_names \ local_names

\* A mutant of DryRun: the apply flag is ignored.
DryRunNever(apply) == FALSE

\* `if not apply: return`
DryRun(apply) == ~apply

\* A mutant of AssignmentsEligible: assignments are always pruned.
AssignmentsAlways(include_assignments) == TRUE

\* `if args.include_assignments:` gates delete_extra_assignments
AssignmentsEligible(include_assignments) == include_assignments

\* A mutant of AfterFailedDelete: a failed delete ends the loop.
AfterFailedDeleteAbort(rest) == <<>>

\* The except clause logs and the for loop goes on with the rest.
AfterFailedDelete(rest) == rest

Without(list, id) == SelectSeq(list, LAMBDA o : o.id # id)

\* main: the two name sets and their differences
PruneMain ==
    /\ pc = "prune_main"
    /\ extra' = [pages |-> ExtraNames(load_canvas_sets.pages, load_local_names.pages),
                 assignments |-> ExtraNames(load_canvas_sets.assignments,
                                            load_local_names.assignments)]
    /\ listings' = [pages |-> listings.pages + 1, assignments |-> listings.assignments + 1]
    /\ pc' = "prune_pages"
    /\ UNCHANGED <<local, remoteVars, args, iter, deleteCalls, deleteFailed, reported,
                   modVars, runVars, rubVars, pipeVars>>

\* delete_extra_pages up to the listing its loop iterates
DeleteExtraPagesBegin ==
    /\ pc = "prune_pages"
    /\ reported' = reported \cup {[kind |-> "page", name |-> n] : n \in extra.pages}
    /\ IF extra.pages = {} \/ DryRun(args.apply)
       THEN pc' = "prune_assignments" /\ iter' = <<>> /\ UNCHANGED listings
       ELSE /\ pc' = "prune_del_pages"
            /\ iter' = pages
            /\ listings' = [listings EXCEPT !.pages = @ + 1]
    /\ UNCHANGED <<local, remoteVars, args, extra, deleteCalls, deleteFailed,
                   modVars, runVars, rubVars, pipeVars>>

\* one iteration of `for page in course.get_pages()`
DeletePage ==
    /\ pc = "prune_del_pages"
    /\ IF iter = <<>>
       THEN /\ pc' = "prune_assignments"
            /\ UNCHANGED <<pages, iter, deleteCalls, deleteFailed>>
       ELSE LET page == Head(iter)
                call == [kind |-> "page", id |-> page.id, name |-> page.name]
            IN  IF page.name \in extra.pages
                THEN /\ deleteCalls' = deleteCalls \cup {call}
                     /\ \/ /\ pages' = Without(pages, page.id)
                           /\ iter' = Tail(iter)
                           /\ UNCHANGED deleteFailed
                        \/ /\ deleteFailed' = deleteFailed \cup {call}
                           /\ iter' = AfterFailedDelete(Tail(iter))
                           /\ UNCHANGED pages
                     /\ UNCHANGED pc
                ELSE /\ iter' = Tail(iter)
                     /\ UNCHANGED <<pc, pages, deleteCalls, deleteFailed>>
    /\ UNCHANGED <<local, assignments, files, modules, rubricRemote, args, extra,
                   reported, listings, modVars, runVars, rubVars, pipeVars>>

\* main's include_assignments branch and delete_extra_assignments up to its listing
DeleteExtraAssignmentsBegin ==
    /\ pc = "prune_assignments"
    /\ IF AssignmentsEligible(args.include_assignments)
       THEN /\ reported' = reported \cup
                   {[kind |-> "assignment", name |-> n] : n \in extra.assignments}
            /\ IF extra.assignments = {} \/ DryRun(args.apply)
               THEN pc' = "prune_done" /\ iter' = <<>> /\ UNCHANGED listings
               ELSE /\ pc' = "prune_del_assignments"
                    /\ iter' = assignments
                    /\ listings' = [listings EXCEPT !.assignments = @ + 1]
       ELSE /\ reported' = reported \cup
                   (IF extra.assignments # {}
                    THEN {[kind |-> "notice", name |-> "assignments"]} ELSE {})
            /\ pc' = "prune_done"
            /\ iter' = <<>>
            /\ UNCHANGED listings
    /\ UNCHANGED <<local, remoteVars, args, extra, deleteCalls, deleteFailed,
                   modVars, runVars, rubVars, pipeVars>>

\* one iteration of `for a in course.get_assignments()`
DeleteAssignment ==
    /\ pc = "prune_del_assignments"
    /\ IF iter = <<>>
       THEN /\ pc' = "prune_done"
            /\ UNCHANGED <<assignments, iter, deleteCalls, deleteFailed>>
       ELSE LET a == Head(iter)
                call == [kind |-> "assignment", id |-> a.id, name |-> a.name]
            IN  IF a.name \in extra.assignments
                THEN /\ deleteCalls' = deleteCalls \cup {call}
                     /\ \/ /\ assignments' = Without(assignments, a.id)
                           /\ iter' = Tail(iter)
                           /\ UNCHANGED deleteFailed
                        \/ /\ deleteFailed' = deleteFailed \cup {call}
                           /\ iter' = AfterFailedDelete(Tail(iter))
                           /\ UNCHANGED assignments
                     /\ UNCHANGED pc
                ELSE /\ iter' = Tail(iter)
                     /\ UNCHANGED <<pc, assignments, deleteCalls, deleteFailed>>
    /\ UNCHANGED <<local, pages, files, modules, rubricRemote, args, extra, reported,
                   listings, modVars, runVars, rubVars, pipeVars>>

----------------------------------------------------------------------------
(* sync_modules.py *)

ByExt(e) == SelectSeq(local, LAMBDA f : f.ext = e)

\* main: rglob per extension, in the order .page, .assignment, .file, .link
content_dirs == ByExt("page") \o ByExt("assignment") \o ByExt("file") \o ByExt("link")

ExtRank(e) ==
    CASE e = "page" -> 1 [] e = "assignment" -> 2 [] e = "file" -> 3 [] OTHER -> 4

\* The position in content_dirs of the i-th local folder.
DirPos(i) ==
    Cardinality({j \in DOMAIN local :
                    \/ ExtRank(local[j].ext) < ExtRank(local[i].ext)
                    \/ local[j].ext = local[i].ext /\ j <= i})

\* A mutant of FindByName: with no object of that name, the first one listed.
FindByNameOrFirst(list, name) ==
    IF \E i \in DOMAIN list : list[i].name = name
    THEN list[CHOOSE i \in DOMAIN list :
                 /\ list[i].name = name
                 /\ \A j \in 1..(i - 1) : list[j].name # name].id
    ELSE IF list = <<>> THEN 0 ELSE list[1].id

\* find_page, find_assignment, find_file: the id of the first listed object
\* with that name, 0 for None
FindByName(list, name) ==
    IF \E i \in DOMAIN list : list[i].name = name
    THEN list[CHOOSE i \in DOMAIN list :
                 /\ list[i].name = name
                 /\ \A j \in 1..(i - 1) : list[j].name # name].id
    ELSE 0

\* A module item as create_module_item is given it; 0 and "" stand for an
\* attribute the item does not have.
Item(type, page_url, content_id, external_url, title, indent) ==
    [type |-> type, page_url |-> page_url, content_id |-> content_id,
     external_url |-> external_url, title |-> title, indent |-> indent]

NoItem == Item("", 0, 0, "", "", 0)

\* A mutant of FindModule: the lookup never finds the module.
FindModuleNever(name) == 0

\* ensure_module's loop: the index of the first module with that name, 0 if none
FindModule(name) ==
    IF \E i \in DOMAIN modules : modules[i].name = name
    THEN CHOOSE i \in DOMAIN modules :
            /\ modules[i].name = name
            /\ \A j \in 1..(i - 1) : modules[j].name # name
    ELSE 0

\* A mutant of module_has_item: the item's type is compared in lower case.
module_has_item_lower(module, item) ==
    \E i \in DOMAIN module.items :
        /\ module.items[i].type = Lower(item.type)
        /\ module.items[i].page_url = item.page_url
        /\ module.items[i].content_id = item.content_id
        /\ module.items[i].external_url = item.external_url

\* A mutant of module_has_item: items are compared by type and display title.
module_has_item_by_title(module, item) ==
    \E i \in DOMAIN module.items :
        module.items[i].type = item.type /\ module.items[i].title = item.title

\* module_has_item: an item of the type with the same identity key
module_has_item(module, item) ==
    \E i \in DOMAIN module.items :
        LET it == module.items[i]
        IN  /\ it.type = item.type
            /\ CASE item.type = "Page" -> it.page_url = item.page_url
                 [] item.type \in {"Assignment", "File"} -> it.content_id = item.content_id
                 [] item.type = "ExternalUrl" -> it.external_url = item.external_url
                 [] OTHER -> FALSE

\* A mutant of AddItem: the new item is put first.
AddItemFirst(items, item) == <<item>> \o items

\* create_module_item without a position: the item goes to the end of the module
AddItem(items, item) == Append(items, item)

\* What sync_page, sync_assignment, sync_file_item and sync_link do with a
\* parsed meta.json before their loop over the module names: "warn" (print a
\* warning and return), "skip" (return silently), "find" (look the object up,
\* then place it), "place" (a link: nothing to look up).
Plan(f) ==
    LET t == Lower(f.type)
    IN  CASE t = "page" ->
               IF f.name = "" THEN "warn" ELSE IF f.modules = <<>> THEN "skip" ELSE "find"
          [] t = "assignment" ->
               IF f.name = "" THEN "warn" ELSE IF f.modules = <<>> THEN "skip" ELSE "find"
          [] t = "file" ->
               IF f.filename = "" THEN "warn"
               ELSE IF f.modules = <<>> THEN "skip" ELSE "find"
          [] t = "link" ->
               IF f.external_url = "" \/ f.name = "" THEN "warn"
               ELSE IF f.modules = <<>> THEN "skip" ELSE "place"
          [] OTHER -> "warn"

\* The id find_page / find_assignment / find_file returns for the folder.
Found(f) ==
    LET t == Lower(f.type)
    IN  CASE t = "page" -> FindByName(pages, f.name)
          [] t = "assignment" -> FindByName(assignments, f.name)
          [] t = "file" -> FindByName(files, f.filename)
          [] OTHER -> 0

\* The module_item the sync function creates for the folder.
ItemFor(f, id) ==
    LET t == Lower(f.type)
    IN  CASE t = "page" -> Item("Page", id, 0, "", f.name, f.indent)
          [] t = "assignment" -> Item("Assignment", 0, id, "", f.name, f.indent)
          [] t = "file" ->
               Item("File", 0, id, "", IF f.title = "" THEN f.filename ELSE f.title,
                    f.indent)
          [] OTHER -> Item("ExternalUrl", 0, 0, f.external_url, f.name, f.indent)

\* main's loop body up to the sync function's loop over the module names
ModFolder ==
    /\ pc = "mod_folder"
    /\ IF fidx > Len(content_dirs)
       THEN /\ pc' = "mod_done"
            /\ UNCHANGED <<fidx, mrest, obj, warned>>
       ELSE LET f == content_dirs[fidx]
            IN  CASE f.st = "missing" ->
                       \* FileNotFoundError: warn and continue
                       /\ warned' = warned \cup {fidx}
                       /\ fidx' = fidx + 1
                       /\ UNCHANGED <<pc, mrest, obj>>
                  [] f.st = "bad" ->
                       \* json.load raises: nothing catches it
                       /\ pc' = "mod_aborted"
                       /\ UNCHANGED <<fidx, mrest, obj, warned>>
                  [] f.st = "ok" /\ Plan(f) = "warn" ->
                       /\ warned' = warned \cup {fidx}
                       /\ fidx' = fidx + 1
                       /\ UNCHANGED <<pc, mrest, obj>>
                  [] f.st = "ok" /\ Plan(f) = "skip" ->
                       /\ fidx' = fidx + 1
                       /\ UNCHANGED <<pc, mrest, obj, warned>>
                  [] f.st = "ok" /\ Plan(f) = "place" ->
                       /\ obj' = ItemFor(f, 0)
                       /\ mrest' = f.modules
                       /\ pc' = "mod_module"
                       /\ UNCHANGED <<fidx, warned>>
                  [] f.st = "ok" /\ Plan(f) = "find" ->
                       \/ \* the listing raises: nothing catches it
                          /\ pc' = "mod_aborted"
                          /\ UNCHANGED <<fidx, mrest, obj, warned>>
                       \/ /\ Found(f) = 0
                          /\ warned' = warned \cup {fidx}
                          /\ fidx' = fidx + 1
                          /\ UNCHANGED <<pc, mrest, obj>>
                       \/ /\ Found(f) # 0
                          /\ obj' = ItemFor(f, Found(f))
                          /\ mrest' = f.modules
                          /\ pc' = "mod_module"
                          /\ UNCHANGED <<fidx, warned>>
    /\ UNCHANGED <<local, remoteVars, modCalls, held, external, pruneVars, runVars, rubVars,
                   pipeVars>>

\* one iteration of `for mname in modules`: ensure_module, module_has_item,
\* create_module_item; any of the remote calls may raise, which ends the script
ModModule ==
    /\ pc = "mod_module"
    /\ IF mrest = <<>>
       THEN /\ fidx' = fidx + 1
            /\ pc' = "mod_folder"
            /\ UNCHANGED <<mrest, modules, modCalls>>
       ELSE LET mname == Head(mrest)
                m == FindModule(mname)
                made == IF m = 0 THEN 1 ELSE 0
                mods1 == IF m = 0
                         THEN Append(modules, [name |-> mname, items |-> <<>>])
                         ELSE modules
                k == IF m = 0 THEN Len(mods1) ELSE m
            IN  \/ \* course.get_modules() raises
                   /\ pc' = "mod_aborted"
                   /\ UNCHANGED <<fidx, mrest, modules, modCalls>>
                \/ \* course.create_module() raises
                   /\ m = 0
                   /\ pc' = "mod_aborted"
                   /\ modCalls' = [modCalls EXCEPT !.create_module = @ + 1]
                   /\ UNCHANGED <<fidx, mrest, modules>>
                \/ \* module.get_module_items() raises
                   /\ pc' = "mod_aborted"
                   /\ modules' = mods1
                   /\ modCalls' = [modCalls EXCEPT !.create_module = @ + made]
                   /\ UNCHANGED <<fidx, mrest>>
                \/ \* already in the module
                   /\ module_has_item(mods1[k], obj)
                   /\ modules' = mods1
                   /\ modCalls' = [modCalls EXCEPT !.create_module = @ + made]
                   /\ mrest' = Tail(mrest)
                   /\ UNCHANGED <<fidx, pc>>
                \/ \* module.create_module_item() succeeds
                   /\ ~module_has_item(mods1[k], obj)
                   /\ modules' = [mods1 EXCEPT ![k].items = AddItem(@, obj)]
                   /\ modCalls' = [create_module |-> modCalls.create_module + made,
                                   create_item |-> modCalls.create_item + 1]
                   /\ mrest' = Tail(mrest)
                   /\ UNCHANGED <<fidx, pc>>
                \/ \* module.create_module_item() raises
                   /\ ~module_has_item(mods1[k], obj)
                   /\ modules' = mods1
                   /\ modCalls' = [create_module |-> modCalls.create_module + made,
                                   create_item |-> modCalls.create_item + 1]
                   /\ pc' = "mod_aborted"
                   /\ UNCHANGED <<fidx, mrest>>
    /\ UNCHANGED <<local, contentVars, rubricRemote, obj, warned, held, external, pruneVars,
                   runVars, rubVars, pipeVars>>

\* No one else has touched the modules.
NoExternal == [adds |-> 0, raced |-> FALSE]

\* The first half of an iteration of `for mname in modules`, as far as the
\* answer of module_has_item: ensure_module and the listing of the module's
\* items.  The module object is held for the create call.
ModCheck ==
    /\ pc = "mod_module"
    /\ IF mrest = <<>>
       THEN /\ fidx' = fidx + 1
            /\ pc' = "mod_folder"
            /\ UNCHANGED <<mrest, modules, modCalls, held, external>>
       ELSE LET mname == Head(mrest)
                m == FindModule(mname)
                made == IF m = 0 THEN 1 ELSE 0
                mods1 == IF m = 0
                         THEN Append(modules, [name |-> mname, items |-> <<>>])
                         ELSE modules
                k == IF m = 0 THEN Len(mods1) ELSE m
            IN  \/ \* course.get_modules() raises
                   /\ pc' = "mod_aborted"
                   /\ UNCHANGED <<fidx, mrest, modules, modCalls, held, external>>
                \/ \* course.create_module() raises
                   /\ m = 0
                   /\ pc' = "mod_aborted"
                   /\ modCalls' = [modCalls EXCEPT !.create_module = @ + 1]
                   /\ UNCHANGED <<fidx, mrest, modules, held, external>>
                \/ \* module.get_module_items() raises
                   /\ pc' = "mod_aborted"
                   /\ modules' = mods1
                   /\ modCalls' = [modCalls EXCEPT !.create_module = @ + made]
                   /\ UNCHANGED <<fidx, mrest, held, external>>
                \/ \* already in the module
                   /\ module_has_item(mods1[k], obj)
                   /\ modules' = mods1
                   /\ modCalls' = [modCalls EXCEPT !.create_module = @ + made]
                   /\ mrest' = Tail(mrest)
                   /\ UNCHANGED <<fidx, pc, held, external>>
                \/ \* not in the module: on to create_module_item
                   /\ ~module_has_item(mods1[k], obj)
                   /\ modules' = mods1
                   /\ modCalls' = [modCalls EXCEPT !.create_module = @ + made]
                   /\ held' = k
                   /\ external' = [external EXCEPT !.raced = FALSE]
                   /\ pc' = "mod_create"
                   /\ UNCHANGED <<fidx, mrest>>
    /\ UNCHANGED <<local, contentVars, rubricRemote, obj, warned, pruneVars, runVars,
                   rubVars, pipeVars>>

\* The second half: module.create_module_item on the module object held
ModCreate ==
    /\ pc = "mod_create"
    /\ modCalls' = [modCalls EXCEPT !.create_item = @ + 1]
    /\ \/ \* the call succeeds
          /\ modules' = [modules EXCEPT ![held].items = AddItem(@, obj)]
          /\ mrest' = Tail(mrest)
          /\ held' = 0
          /\ pc' = "mod_module"
       \/ \* the call raises
          /\ pc' = "mod_aborted"
          /\ UNCHANGED <<modules, mrest, held>>
    /\ UNCHANGED <<local, contentVars, rubricRemote, fidx, obj, warned, external, pruneVars,
                   runVars, rubVars, pipeVars>>

\* The items someone else may put into a module by hand: those of the local
\* folders whose remote object exists.
ExternalItems ==
    {ItemFor(local[i], Found(local[i])) :
        i \in {j \in DOMAIN local :
                  /\ local[j].st = "ok"
                  /\ \/ Plan(local[j]) = "place"
                     \/ Plan(local[j]) = "find" /\ Found(local[j]) # 0}}

\* The number of items someone else adds during a run, at most.
MaxExternal == 1

\* Someone else adds an item to a module while the script runs.
ExternalAdd ==
    /\ pc \in {"mod_folder", "mod_module", "mod_create"}
    /\ external.adds < MaxExternal
    /\ \E k \in DOMAIN modules, item \in ExternalItems :
          /\ modules' = [modules EXCEPT ![k].items = AddItem(@, item)]
          /\ external' = [adds |-> external.adds + 1,
                          raced |-> \/ external.raced
                                    \/ /\ pc = "mod_create"
                                       /\ k = held
                                       /\ module_has_item(modules'[k], obj)]
    /\ UNCHANGED <<local, pc, contentVars, rubricRemote, fidx, mrest, obj, modCalls, warned,
                   held, pruneVars, runVars, rubVars, pipeVars>>

\* The script is run again.
ModNextRun ==
    /\ pc \in {"mod_done", "mod_aborted"}
    /\ run < MaxRuns
    /\ run' = run + 1
    /\ entry' = [prevDone |-> pc = "mod_done", prevClean |-> pc = "mod_done",
                 renamed |-> since]
    /\ since' = 0
    /\ pc' = "mod_folder"
    /\ fidx' = 1
    /\ mrest' = <<>>
    /\ obj' = NoItem
    /\ modCalls' = [create_module |-> 0, create_item |-> 0]
    /\ warned' = {}
    /\ UNCHANGED <<local, remoteVars, held, external, pruneVars, rubVars, pipeVars>>

\* The display title a local folder is renamed to.
NewTitle == "Renamed"

SetName(list, id, name) ==
    [i \in DOMAIN list |-> IF list[i].id = id THEN [list[i] EXCEPT !.name = name]
                                               ELSE list[i]]

\* Between two runs the author changes the display title of one folder and
\* leaves its identity key as it is: the name of a link, the title of a file,
\* or the name of a page or an assignment, whose remote object (if any) keeps
\* its id and is or is not renamed as well by the publish step.
Rename ==
    /\ pc = "mod_done"
    /\ run < MaxRuns
    /\ since = 0
    /\ \E i \in DOMAIN local :
          LET f == local[i]
              t == Lower(f.type)
          IN  /\ f.st = "ok"
              /\ since' = DirPos(i)
              /\ \/ /\ t = "link"
                    /\ f.name \notin {"", NewTitle}
                    /\ local' = [local EXCEPT ![i].name = NewTitle]
                    /\ UNCHANGED remoteVars
                 \/ /\ t = "file"
                    /\ f.filename # ""
                    /\ f.title # NewTitle
                    /\ local' = [local EXCEPT ![i].title = NewTitle]
                    /\ UNCHANGED remoteVars
                 \/ /\ t = "page"
                    /\ f.name \notin {"", NewTitle}
                    /\ FindByName(pages, NewTitle) = 0
                    /\ local' = [local EXCEPT ![i].name = NewTitle]
                    /\ pages' \in {pages, SetName(pages, FindByName(pages, f.name), NewTitle)}
                    /\ UNCHANGED <<assignments, files, modules, rubricRemote>>
                 \/ /\ t = "assignment"
                    /\ f.name \notin {"", NewTitle}
                    /\ FindByName(assignments, NewTitle) = 0
                    /\ local' = [local EXCEPT ![i].name = NewTitle]
                    /\ assignments' \in
                          {assignments,
                           SetName(assignments, FindByName(assignments, f.name), NewTitle)}
                    /\ UNCHANGED <<pages, files, modules, rubricRemote>>
    /\ UNCHANGED <<pc, run, entry, modVars, pruneVars, rubVars, pipeVars>>

----------------------------------------------------------------------------
(* sync_rubrics.py: shared/scripts ("inline", Course.create_rubric),          *)
(* zaphod ("form", a POST of form fields) and zaphod/scripts ("upload", the   *)
(* CSV upload job)                                                            *)

\* poll_rubric_upload_status: timeout and poll_interval, in seconds
PollTimeout == 60

PollInterval == 1

\* The seconds a status request takes in the model: a timeout is reached
\* after two or three requests.
Latencies == {20, 45}

\* The job states poll_rubric_upload_status takes for success and for failure.
ImportedStates == {"imported", "completed", "complete", "succeeded"}

FailedStates == {"failed", "failed_with_messages", "error"}

\* The response statuses of the rubric endpoints in the model.
Statuses == {200, 201, 401, 403, 404, 422, 500}

\* A mutant of CreateOutcome: 403 is not taken for a permission error.
CreateOutcomeForbiddenUnexpected(status) ==
    IF status \in {200, 201} THEN "ok"
    ELSE IF status = 401 THEN "permission"
    ELSE IF status = 404 THEN "not_reachable"
    ELSE IF status = 422 THEN "validation"
    ELSE "unexpected"

\* create_rubric_via_api (form) on the response: the parsed body is returned
\* ("ok"), or a RuntimeError is raised whose message depends on the status.
CreateOutcome(status) ==
    IF status \in {200, 201} THEN "ok"
    ELSE IF status \in {401, 403} THEN "permission"
    ELSE IF status = 404 THEN "not_reachable"
    ELSE IF status = 422 THEN "validation"
    ELSE "unexpected"

\* iter_assignment_folders (inline, upload): every *.assignment folder;
\* iter_assignment_folders_with_rubrics (form): those holding a rubric file.
assignment_folders ==
    IF strategy = "form"
    THEN SelectSeq(local, LAMBDA f : f.ext = "assignment" /\ f.rubric.st # "none")
    ELSE SelectSeq(local, LAMBDA f : f.ext = "assignment")

\* build_rubric_payload (form) accepts the spec: a title, criteria, and in
\* every criterion a description, points and ratings with a description and
\* points each.  "" and -1 stand for an absent key.
PayloadValid(spec) ==
    /\ spec.title # ""
    /\ spec.criteria # <<>>
    /\ \A i \in DOMAIN spec.criteria :
          LET c == spec.criteria[i]
          IN  /\ c.description # ""
              /\ c.points # -1
              /\ c.ratings # <<>>
              /\ \A j \in DOMAIN c.ratings :
                    c.ratings[j].description # "" /\ c.ratings[j].points # -1

\* The outcome codes of the model.
OutcomeCodes == {"WRIT-1", "WRIT-2"}

\* The rating columns of the CSV ("Rating 1" .. "Rating 4").
RatingSlots == 4

\* No request sent for the folder so far.
NoRequest == [criteria |-> <<>>, association |-> FALSE, warnings |-> <<>>]

\* r.get("points", 0)
RatingPoints(r) == IF r.points = -1 THEN 0 ELSE r.points

\* the ratings as a request carries them, points defaulting to 0
SentRatings(ratings) ==
    [j \in DOMAIN ratings |->
        [description |-> ratings[j].description, points |-> RatingPoints(ratings[j])]]

\* A mutant of MaxPoints: the points of the first rating.
MaxPointsFirst(ratings) == IF ratings = <<>> THEN 0 ELSE RatingPoints(Head(ratings))

\* max((float(r.get("points", 0)) for r in ratings), default=0.0)
RECURSIVE MaxPoints(_)
MaxPoints(ratings) ==
    IF ratings = <<>> THEN 0
    ELSE LET rest == MaxPoints(Tail(ratings))
             first == RatingPoints(Head(ratings))
         IN  IF first >= rest THEN first ELSE rest

\* build_rubric_params: the outcome id the criterion is linked to, 0 when
\* it is sent as a local criterion.  An entry of 0 counts as no entry.
OutcomeId(crit) ==
    IF crit.kind = "outcome" /\ crit.outcome_code # "" THEN outcome_map[crit.outcome_code]
    ELSE 0

\* build_rubric_params warns about the criterion: an outcome criterion
\* without a code, or with a code the outcome map does not resolve.
Warns(crit) == crit.kind = "outcome" /\ OutcomeId(crit) = 0

\* the criteria (by index) that one call of build_rubric_params warns about, in order
RECURSIVE WarningsFrom(_, _)
WarningsFrom(criteria, i) ==
    IF i > Len(criteria) THEN <<>>
    ELSE (IF Warns(criteria[i]) THEN <<i>> ELSE <<>>) \o WarningsFrom(criteria, i + 1)

\* build_rubric_params (inline): the criteria of rubric[criteria].  points is
\* sent only for a linked outcome criterion without ratings; -1 stands for a
\* criterion sent without points, 0 for one sent without learning_outcome_id.
build_rubric_params(spec) ==
    [criteria |->
        [i \in DOMAIN spec.criteria |->
            LET crit == spec.criteria[i]
            IN  [description |-> crit.description,
                 ratings |-> SentRatings(crit.ratings),
                 learning_outcome_id |-> OutcomeId(crit),
                 points |-> IF OutcomeId(crit) # 0 /\ crit.points # -1 /\ crit.ratings = <<>>
                            THEN crit.points ELSE -1]],
     warnings |-> WarningsFrom(spec.criteria, 1)]

\* A mutant of create_rubric_params: the association parameters are left out.
create_rubric_params_alone(spec, a) ==
    [criteria |-> build_rubric_params(spec).criteria,
     association |-> FALSE,
     warnings |-> build_rubric_params(spec).warnings]

\* create_or_update_rubric_for_assignment (inline): rubric_params merged
\* with the association parameters into one request
create_rubric_params(spec, a) ==
    [criteria |-> build_rubric_params(spec).criteria,
     association |-> TRUE,
     warnings |-> build_rubric_params(spec).warnings]

\* the criterion's points in its CSV row: its own if it has any, else the
\* greatest among all its ratings, else 0
crit_points(crit) == IF crit.points # -1 THEN crit.points ELSE MaxPoints(crit.ratings)

\* A mutant of csv_row: the unused rating slots are not padded.
csv_row_unpadded(crit) ==
    LET n == IF Len(crit.ratings) < RatingSlots THEN Len(crit.ratings) ELSE RatingSlots
    IN  <<crit.description, "", crit_points(crit)>> \o
        [k \in 1..(2 * n) |->
            IF k % 2 = 1 THEN crit.ratings[(k + 1) \div 2].description
            ELSE RatingPoints(crit.ratings[k \div 2])]

\* build_rubric_csv, the row of a criterion: Criterion, Description (the
\* long_description, which no criterion of the model has), Points, then for
\* each of ratings[:4] its description and points, then "" twice for every
\* slot left
csv_row(crit) ==
    LET n == IF Len(crit.ratings) < RatingSlots THEN Len(crit.ratings) ELSE RatingSlots
    IN  <<crit.description, "", crit_points(crit)>> \o
        [k \in 1..(2 * n) |->
            IF k % 2 = 1 THEN crit.ratings[(k + 1) \div 2].description
            ELSE RatingPoints(crit.ratings[k \div 2])] \o
        [k \in 1..(2 * (RatingSlots - n)) |-> ""]

\* build_rubric_csv (upload): one row per criterion, with the criterion's
\* points and its first RatingSlots ratings; the outcome map is not looked at.
build_rubric_csv(spec) ==
    [criteria |->
        [i \in DOMAIN spec.criteria |->
            LET crit == spec.criteria[i]
                n == IF Len(crit.ratings) < RatingSlots THEN Len(crit.ratings) ELSE RatingSlots
            IN  [description |-> crit.description,
                 ratings |-> SentRatings(SubSeq(crit.ratings, 1, n)),
                 learning_outcome_id |-> 0,
                 points |-> crit_points(crit)]],
     rows |-> [i \in DOMAIN spec.criteria |-> csv_row(spec.criteria[i])],
     association |-> FALSE,
     warnings |-> <<>>]

\* build_rubric_payload (form), for a spec it accepts: the form fields of
\* the criteria and of the association
build_rubric_payload(spec, a) ==
    [criteria |->
        [i \in DOMAIN spec.criteria |->
            LET crit == spec.criteria[i]
            IN  [description |-> crit.description,
                 ratings |-> [j \in DOMAIN crit.ratings |->
                                 [description |-> crit.ratings[j].description,
                                  points |-> crit.ratings[j].points]],
                 learning_outcome_id |-> 0,
                 points |-> crit.points]],
     association |-> TRUE,
     warnings |-> <<>>]

\* The title the rubric is created under: build_rubric_params and
\* build_rubric_csv default it, build_rubric_payload requires it.
RubricTitle(spec) == IF spec.title = "" THEN "Untitled Rubric" ELSE spec.title

\* What process_assignment_folder does with the folder before any remote call:
\* "skip", an error it reports ("no_meta", "no_name"), "crash" (json.load of
\* meta.json raises, which nothing catches) or "find" (look the assignment up).
RubPlan(f) ==
    IF f.rubric.st = "none" THEN "skip"
    ELSE IF f.st = "missing" THEN "no_meta"
    ELSE IF f.st = "bad" THEN "crash"
    ELSE IF strategy = "form" /\ Lower(f.type) # "assignment" THEN "skip"
    ELSE IF f.name = "" THEN "no_name"
    ELSE "find"

\* A mutant of Finish: an error of the upload strategy ends the run.
FinishOrAbort(kind) ==
    IF kind \in {"upload_failed", "job_failed", "timeout", "assoc_failed"}
    THEN /\ pc' = "rub_aborted"
         /\ UNCHANGED <<ridx, target, elapsed, result>>
    ELSE /\ result' = Append(result, kind)
         /\ ridx' = ridx + 1
         /\ target' = [id |-> 0, name |-> "", rubric_id |-> 0]
         /\ elapsed' = 0
         /\ pc' = "rub_folder"

\* The folder is done: on to the next one.
Finish(kind) ==
    /\ result' = Append(result, kind)
    /\ ridx' = ridx + 1
    /\ target' = [id |-> 0, name |-> "", rubric_id |-> 0]
    /\ elapsed' = 0
    /\ pc' = "rub_folder"

\* process_assignment_folder up to the call that creates the rubric
RubFolder ==
    /\ pc = "rub_folder"
    /\ IF ridx > Len(assignment_folders)
       THEN /\ pc' = "rub_done"
            /\ UNCHANGED <<ridx, target, elapsed, result>>
       ELSE LET f == assignment_folders[ridx]
                a == FindByName(assignments, f.name)
            IN  CASE RubPlan(f) = "crash" ->
                       /\ pc' = "rub_aborted"
                       /\ UNCHANGED <<ridx, target, elapsed, result>>
                  [] RubPlan(f) = "find" ->
                       \/ \* course.get_assignments() raises: nothing catches it
                          /\ pc' = "rub_aborted"
                          /\ UNCHANGED <<ridx, target, elapsed, result>>
                       \/ /\ a = 0
                          /\ Finish("not_found")
                       \/ /\ a # 0
                          /\ f.rubric.st = "bad"
                          /\ Finish("parse")
                       \/ \* build_rubric_payload raises SystemExit, which
                          \* `except Exception` does not catch
                          /\ a # 0
                          /\ f.rubric.st = "ok"
                          /\ strategy = "form"
                          /\ ~PayloadValid(f.rubric)
                          /\ pc' = "rub_aborted"
                          /\ UNCHANGED <<ridx, target, elapsed, result>>
                       \/ /\ a # 0
                          /\ f.rubric.st = "ok"
                          /\ strategy = "form" => PayloadValid(f.rubric)
                          /\ target' = [id |-> a, name |-> f.name, rubric_id |-> 0]
                          /\ pc' = IF strategy = "upload" THEN "rub_upload" ELSE "rub_create"
                          /\ UNCHANGED <<ridx, elapsed, result>>
                  [] OTHER -> Finish(RubPlan(f))
    /\ resp' = 0
    /\ request' = NoRequest
    /\ UNCHANGED <<local, remoteVars, strategy, rubCalls, rubStart, outcome_map, pruneVars,
                   modVars, runVars, pipeVars>>

\* A mutant of NewRubric: the rubric last created is overwritten.
NewRubricOverwrite(list, title) ==
    IF list = <<>> THEN <<[id |-> 1, title |-> title]>>
    ELSE [list EXCEPT ![Len(list)].title = title]

\* A mutant of NewRubric: the rubric is created twice.
NewRubricTwice(list, title) ==
    list \o <<[id |-> Len(list) + 1, title |-> title],
              [id |-> Len(list) + 2, title |-> title]>>

\* The remote service creates a rubric: always a new one, with a new id.
NewRubric(list, title) == Append(list, [id |-> Len(list) + 1, title |-> title])

Association(rubric_id, a) ==
    [rubric_id |-> rubric_id, association_id |-> a.id,
     association_type |-> "Assignment", use_for_grading |-> TRUE,
     purpose |-> "grading", title |-> a.name]

\* build_rubric_payload (form): assoc_cfg.get("id") or assignment.id, the
\* object the association of the form request points at
assoc_id(spec, a) == IF spec.association # 0 THEN spec.association ELSE a.id

\* The association the create request asks for: the form fields of
\* build_rubric_payload, the assoc_params of
\* create_or_update_rubric_for_assignment (inline).
RequestedAssociation(spec, rid, a) ==
    IF strategy = "form"
    THEN [Association(rid, a) EXCEPT !.association_id = assoc_id(spec, a)]
    ELSE Association(rid, a)

\* create_or_update_rubric_for_assignment (inline) and create_rubric_via_api
\* (form): one POST that creates the rubric and its association
RubCreate ==
    /\ pc = "rub_create"
    /\ rubCalls' = [rubCalls EXCEPT !.create = @ + 1]
    /\ request' = IF strategy = "form"
                   THEN build_rubric_payload(assignment_folders[ridx].rubric, target)
                   ELSE create_rubric_params(assignment_folders[ridx].rubric, target)
    /\ \E status \in Statuses :
          /\ resp' = status
          /\ IF status \in {200, 201}
             THEN \* the service creates what the request carries
                  /\ rubrics' = NewRubric(rubrics, RubricTitle(assignment_folders[ridx].rubric))
                  /\ assocs' = IF request'.association
                               THEN Append(assocs,
                                           RequestedAssociation(assignment_folders[ridx].rubric,
                                                                Len(rubrics) + 1, target))
                               ELSE assocs
             ELSE UNCHANGED <<rubrics, assocs>>
          /\ \* course.create_rubric (inline) raises on every error status
             Finish(IF strategy = "form" THEN CreateOutcome(status)
                    ELSE IF status \in {200, 201} THEN "ok" ELSE "create_failed")
    /\ UNCHANGED <<local, contentVars, modules, job, strategy, rubStart, outcome_map,
                   pruneVars, modVars, runVars, pipeVars>>

\* upload_rubric_csv_to_course and the import id taken from its response
RubUpload ==
    /\ pc = "rub_upload"
    /\ rubCalls' = [rubCalls EXCEPT !.upload = @ + 1]
    /\ \/ \* status 200 or 201, with the import id
          /\ job' = [id |-> 100 + ridx, state |-> "pending", rubric_id |-> 0]
          /\ pc' = "rub_poll"
          /\ elapsed' = 0
          /\ UNCHANGED <<ridx, target, result>>
       \/ \* status 200 or 201, the response carrying no import id
          /\ job' = [id |-> 100 + ridx, state |-> "pending", rubric_id |-> 0]
          /\ Finish("no_import_id")
       \/ \* any other status
          /\ Finish("upload_failed")
          /\ UNCHANGED job
    /\ request' = build_rubric_csv(assignment_folders[ridx].rubric)
    /\ UNCHANGED <<local, contentVars, modules, rubrics, assocs, strategy, rubStart, resp,
                   outcome_map,
                   pruneVars, modVars, runVars, pipeVars>>

\* The remote service works on the upload job; an imported job has created
\* its rubric.
JobAdvance ==
    /\ \/ /\ job.state = "pending"
          /\ job' = [job EXCEPT !.state = "processing"]
          /\ UNCHANGED rubrics
       \/ /\ job.state = "processing"
          /\ job' = [job EXCEPT !.state = "imported", !.rubric_id = Len(rubrics) + 1]
          /\ rubrics' = NewRubric(rubrics, RubricTitle(assignment_folders[job.id - 100].rubric))
       \/ /\ job.state = "processing"
          /\ job' = [job EXCEPT !.state = "failed"]
          /\ UNCHANGED rubrics
    /\ UNCHANGED <<local, pc, contentVars, modules, assocs, rubVars, pruneVars, modVars,
                   runVars, pipeVars>>

\* The status object of the imported job, as the service may shape it: the
\* import's own id under "id", the rubric's id under "rubric_id" or under
\* "rubric"."id", or none of them; 0 stands for an absent key.
StatusObjects ==
    {[rubric_id |-> job.rubric_id, id |-> job.id, rubric |-> 0],
     [rubric_id |-> 0, id |-> job.id, rubric |-> 0],
     [rubric_id |-> 0, id |-> 0, rubric |-> job.rubric_id],
     [rubric_id |-> 0, id |-> 0, rubric |-> 0]}

\* A mutant of rubric_id: only the "rubric_id" and "rubric"."id" keys are read.
rubric_id_of_rubric(status_obj) ==
    IF status_obj.rubric_id # 0 THEN status_obj.rubric_id ELSE status_obj.rubric

\* create_or_update_rubric_for_assignment_via_upload: the rubric id taken from
\* the status object, 0 for None
rubric_id(status_obj) ==
    IF status_obj.rubric_id # 0 THEN status_obj.rubric_id
    ELSE IF status_obj.id # 0 THEN status_obj.id
    ELSE status_obj.rubric

\* A mutant of Elapsed: a clock that wraps around before the deadline.
ElapsedWrapped(before, d) == (before + d) % PollTimeout

\* time.time() - start after a status request that took d seconds, `before`
\* being its value when the request was sent
Elapsed(before, d) == before + d

\* A mutant of PollOutcome: the deadline is looked at before the state.
PollOutcomeDeadlineFirst(state, now) ==
    IF now > PollTimeout THEN "timeout"
    ELSE IF state \in ImportedStates THEN "imported"
    ELSE IF state \in FailedStates THEN "job_failed"
    ELSE "sleep"

\* poll_rubric_upload_status, after a 200 response: what the loop does with
\* the state reported, `now` seconds after the polling began
PollOutcome(state, now) ==
    IF state \in ImportedStates THEN "imported"
    ELSE IF state \in FailedStates THEN "job_failed"
    ELSE IF now > PollTimeout THEN "timeout"
    ELSE "sleep"

\* one iteration of poll_rubric_upload_status's loop: the status request, the
\* state it reports, the deadline, the sleep; on success, the rubric id is
\* taken from the status object
RubPoll ==
    /\ pc = "rub_poll"
    /\ \E d \in Latencies :
          LET now == Elapsed(elapsed, d)
              outcome == PollOutcome(job.state, now)
          IN  \/ \* status code other than 200
                 Finish("status_error")
              \/ /\ outcome = "imported"
                 /\ \E status_obj \in StatusObjects :
                       IF rubric_id(status_obj) = 0
                       THEN Finish("no_rubric_id")
                       ELSE /\ target' = [target EXCEPT !.rubric_id = rubric_id(status_obj)]
                            /\ pc' = "rub_assoc"
                            /\ elapsed' = 0
                            /\ UNCHANGED <<ridx, result>>
              \/ /\ outcome \in {"job_failed", "timeout"}
                 /\ Finish(outcome)
              \/ /\ outcome = "sleep"
                 /\ elapsed' = now + PollInterval
                 /\ UNCHANGED <<pc, ridx, target, result>>
    /\ UNCHANGED <<local, remoteVars, strategy, rubCalls, rubStart, resp, request,
                   outcome_map, pruneVars, modVars,
                   runVars, pipeVars>>

\* A mutant of AfterFailedAssociation: the rubric the job created is
\* deleted again.
AfterFailedAssociationRollback(list) ==
    IF list = <<>> THEN list ELSE SubSeq(list, 1, Len(list) - 1)

\* The remote rubrics after create_rubric_association raised:
\* process_assignment_folder prints the error and returns, no further call
\* is issued for the folder.
AfterFailedAssociation(list) == list

\* create_rubric_association: the second call of the upload strategy
RubAssociate ==
    /\ pc = "rub_assoc"
    /\ rubCalls' = [rubCalls EXCEPT !.assoc = @ + 1]
    /\ \E status \in Statuses :
          IF status \in {200, 201}
          THEN /\ assocs' = Append(assocs, Association(target.rubric_id, target))
               /\ Finish("ok")
               /\ UNCHANGED rubrics
          ELSE /\ Finish("assoc_failed")
               /\ rubrics' = AfterFailedAssociation(rubrics)
               /\ UNCHANGED assocs
    /\ UNCHANGED <<local, contentVars, modules, job, strategy, rubStart, resp, request,
                   outcome_map, pruneVars, modVars, runVars, pipeVars>>

\* The script is run again.
RubNextRun ==
    /\ pc \in {"rub_done", "rub_aborted"}
    /\ run < MaxRuns
    /\ run' = run + 1
    /\ entry' = [prevDone |-> pc = "rub_done",
                 prevClean |-> pc = "rub_done" /\ Range(result) \subseteq {"ok", "skip"},
                 renamed |-> 0]
    /\ pc' = "rub_folder"
    /\ ridx' = 1
    /\ target' = [id |-> 0, name |-> "", rubric_id |-> 0]
    /\ elapsed' = 0
    /\ rubCalls' = [create |-> 0, upload |-> 0, assoc |-> 0]
    /\ result' = <<>>
    /\ rubStart' = Len(rubrics)
    /\ resp' = 0
    /\ request' = NoRequest
    /\ UNCHANGED <<local, remoteVars, strategy, outcome_map, since, pruneVars, modVars,
                   pipeVars>>

----------------------------------------------------------------------------
(* watch_and_publish.py: run_pipeline, the steps that issue module, rubric   *)
(* and delete calls                                                          *)

\* The arguments run_pipeline gives the prune script.
PruneArgv ==
    <<"--prune">> \o (IF env.assignments THEN <<"--prune-assignments">> ELSE <<>>)
                  \o (IF env.apply THEN <<"--apply">> ELSE <<>>)

\* parse_args of the prune script accepts the flags it declares (given
\* without a value); any other argument ends the script with a usage error.
ParseOk(argv) == \A a \in Range(argv) : a \in {"--apply", "--include-assignments"}

\* sync_modules has exited (check=False: whatever its exit status);
\* sync_rubrics starts
PipeRubrics ==
    /\ pc \in {"mod_done", "mod_aborted"}
    /\ pipe = <<>>
    /\ pipe' = Append(pipe, [script |-> "sync_modules", exit |-> pc])
    /\ pc' = "rub_folder"
    /\ ridx' = 1
    /\ target' = [id |-> 0, name |-> "", rubric_id |-> 0]
    /\ elapsed' = 0
    /\ rubCalls' = [create |-> 0, upload |-> 0, assoc |-> 0]
    /\ result' = <<>>
    /\ rubStart' = Len(rubrics)
    /\ resp' = 0
    /\ request' = NoRequest
    /\ UNCHANGED <<local, remoteVars, strategy, outcome_map, env, startVars, watchVars,
                   pruneVars, modVars, runVars>>

\* sync_rubrics has exited; the optional prune step
PipePrune ==
    /\ pc \in {"rub_done", "rub_aborted"}
    /\ Len(pipe) = 1
    /\ LET log == Append(pipe, [script |-> "sync_rubrics", exit |-> pc])
       IN  IF ~env.prune
           THEN /\ pipe' = log
                /\ pc' = "pipe_done"
                /\ UNCHANGED args
           ELSE IF ParseOk(PruneArgv)
           THEN /\ pipe' = log
                /\ pc' = "prune_main"
                /\ args' = [apply |-> \E i \in DOMAIN PruneArgv : PruneArgv[i] = "--apply",
                            include_assignments |->
                                \E i \in DOMAIN PruneArgv :
                                   PruneArgv[i] = "--include-assignments"]
           ELSE /\ pipe' = Append(log, [script |-> "prune_canvas_content", exit |-> "usage"])
                /\ pc' = "pipe_done"
                /\ UNCHANGED args
    /\ UNCHANGED <<local, remoteVars, env, startVars, watchVars, extra, iter, deleteCalls,
                   deleteFailed,
                   reported, listings, modVars, runVars, rubVars>>

\* A later file event: the pipeline runs again on the same tree.
PipeNextRun ==
    /\ pc = "pipe_done"
    /\ run < MaxRuns
    /\ run' = run + 1
    /\ entry' = [prevDone |-> pipe[1].exit = "mod_done",
                 prevClean |-> /\ pipe[1].exit = "mod_done"
                               /\ pipe[2].exit = "rub_done"
                               /\ Range(result) \subseteq {"ok", "skip"},
                 renamed |-> 0]
    /\ pipe' = <<>>
    /\ pc' = "mod_folder"
    /\ fidx' = 1
    /\ mrest' = <<>>
    /\ obj' = NoItem
    /\ modCalls' = [create_module |-> 0, create_item |-> 0]
    /\ warned' = {}
    /\ UNCHANGED <<local, remoteVars, env, startVars, watchVars, since, held, external,
                   pruneVars, rubVars>>

----------------------------------------------------------------------------
(* watch_and_publish.py: the observer thread, on_any_event and run_pipeline *)
(* as a sequence of child processes                                          *)

prune_script == "prune_canvas_content.py"

\* A mutant of steps: sync_rubrics.py runs before sync_modules.py.
stepsRubricsFirst ==
    <<"frontmatter_to_meta.py", "publish_all.py", "sync_rubrics.py", "sync_clo_via_csv.py",
      "sync_modules.py", "sync_quiz_banks.py">>

\* run_pipeline: the scripts of a run, in order
steps ==
    <<"frontmatter_to_meta.py", "publish_all.py", "sync_modules.py", "sync_clo_via_csv.py",
      "sync_rubrics.py", "sync_quiz_banks.py">>

\* the values of stepno after the scripts of `steps`: the prune step, and
\* the end of run_pipeline
PruneStepNo == Len(steps) + 1

EndStepNo == Len(steps) + 2

\* The file events of the model: a file modified, created or deleted, and a
\* directory modified.
FileEvents ==
    {[is_directory |-> FALSE, event_type |-> "modified"],
     [is_directory |-> FALSE, event_type |-> "created"],
     [is_directory |-> FALSE, event_type |-> "deleted"],
     [is_directory |-> TRUE, event_type |-> "modified"]}

\* A mutant of Reacts: every event starts the pipeline.
ReactsAlways(event) == TRUE

\* on_any_event reacts to the event
Reacts(event) == ~event.is_directory /\ event.event_type \in {"modified", "created"}

\* A mutant of Returned: the child is started and not waited for.
ReturnedAtOnce(child) == TRUE

\* subprocess.run returns: the child has exited
Returned(child) == child \notin children

\* The observer's emitter queues a file event, whatever the observer thread
\* is doing.
FileEvent ==
    /\ pc \in {"watching", "pipeline", "in_step"}
    /\ Len(events) < MaxEvents
    /\ run + Len(events) < MaxRuns + 1
    /\ \E event \in FileEvents : events' = Append(events, event)
    /\ UNCHANGED <<local, pc, remoteVars, pruneVars, modVars, runVars, rubVars, env, pipe,
                   startVars, children, present, stepno>>

\* The observer thread takes the next event and calls on_any_event, which
\* returns at once or enters run_pipeline.
on_any_event ==
    /\ pc = "watching"
    /\ events # <<>>
    /\ events' = Tail(events)
    /\ IF Reacts(Head(events))
       THEN /\ pc' = "pipeline"
            /\ run' = run + 1
            /\ pipe' = <<>>
            /\ stepno' = 1
       ELSE UNCHANGED <<pc, run, pipe, stepno>>
    /\ UNCHANGED <<local, remoteVars, pruneVars, modVars, entry, since, rubVars, env,
                   startVars, children, present>>

\* run_pipeline, one iteration of the loop over steps: a missing script is
\* skipped, any other is started with subprocess.run
RunStep ==
    /\ pc = "pipeline"
    /\ stepno <= Len(steps)
    /\ IF steps[stepno] \in present
       THEN /\ children' = children \cup {[run |-> run, script |-> steps[stepno]]}
            /\ pipe' = Append(pipe, [script |-> steps[stepno], exit |-> "running"])
            /\ pc' = "in_step"
            /\ UNCHANGED stepno
       ELSE /\ pipe' = Append(pipe, [script |-> steps[stepno], exit |-> "missing"])
            /\ stepno' = stepno + 1
            /\ UNCHANGED <<pc, children>>
    /\ UNCHANGED <<local, remoteVars, pruneVars, modVars, runVars, rubVars, env, startVars,
                   events, present>>

\* run_pipeline, the prune step: nothing when ZAPHOD_PRUNE is not truthy, a
\* warning when the script is missing, else the script with PruneArgv
RunPrune ==
    /\ pc = "pipeline"
    /\ stepno = PruneStepNo
    /\ IF env.prune /\ prune_script \in present
       THEN /\ children' = children \cup {[run |-> run, script |-> prune_script]}
            /\ pipe' = Append(pipe, [script |-> prune_script, exit |-> "running"])
            /\ pc' = "in_step"
            /\ UNCHANGED stepno
       ELSE /\ pipe' = IF env.prune
                       THEN Append(pipe, [script |-> prune_script, exit |-> "missing"])
                       ELSE pipe
            /\ stepno' = stepno + 1
            /\ UNCHANGED <<pc, children>>
    /\ UNCHANGED <<local, remoteVars, pruneVars, modVars, runVars, rubVars, env, startVars,
                   events, present>>

\* the exit status of a child, as the log of the run keeps it
ExitOf(child) ==
    IF child.script = prune_script /\ ~ParseOk(PruneArgv) THEN {"usage"}
    ELSE {"ok", "failed"}

\* the log with the exit of the child in the place of its "running"
Exited(log, child, exit) ==
    [k \in DOMAIN log |->
        IF child.run = run /\ log[k] = [script |-> child.script, exit |-> "running"]
        THEN [script |-> child.script, exit |-> exit]
        ELSE log[k]]

\* A child process exits, with any status.
ChildExits ==
    /\ \E child \in children :
          /\ children' = children \ {child}
          /\ \E exit \in ExitOf(child) : pipe' = Exited(pipe, child, exit)
    /\ UNCHANGED <<local, pc, remoteVars, pruneVars, modVars, runVars, rubVars, env,
                   startVars, events, present, stepno>>

\* subprocess.run returns (check=False: whatever the exit status) and
\* run_pipeline goes on
StepReturns ==
    /\ pc = "in_step"
    /\ Returned([run |-> run,
                 script |-> IF stepno = PruneStepNo THEN prune_script ELSE steps[stepno]])
    /\ pc' = "pipeline"
    /\ stepno' = stepno + 1
    /\ UNCHANGED <<local, remoteVars, pruneVars, modVars, runVars, rubVars, env, pipe,
                   startVars, events, children, present>>

\* run_pipeline returns, on_any_event returns: the observer thread is back
\* at its queue
PipelineComplete ==
    /\ pc = "pipeline"
    /\ stepno = EndStepNo
    /\ pc' = "watching"
    /\ UNCHANGED <<local, remoteVars, pruneVars, modVars, runVars, rubVars, pipeVars>>

----------------------------------------------------------------------------
(* The start of every script's main: the process-level inputs it reads and  *)
(* the first remote calls, in the order of the code                          *)

Scripts == {"sync_modules", "sync_rubrics_inline", "sync_rubrics_upload",
            "sync_rubrics_form", "prune_canvas_content"}

\* A mutant of Steps: the course is fetched before the inputs are looked at.
StepsCourseFirst(s) == <<"get_course", "course_id", "credentials">>

\* The steps from the start of main, each a test of an input or a remote
\* call.  sync_rubrics_form goes on to its first folder, where
\* create_rubric_via_api reads the credentials again (get_api_url_and_key).
Steps(s) ==
    CASE s = "sync_modules" -> <<"course_id", "credentials", "get_course", "pages_dir">>
      [] s \in {"sync_rubrics_inline", "sync_rubrics_upload"} ->
           <<"course_id", "credentials", "get_course">>
      [] s = "sync_rubrics_form" ->
           <<"course_id_or_defaults", "pages_dir", "credentials", "get_course",
             "get_assignments", "credentials">>
      [] OTHER -> <<"credentials", "course_id", "get_course">>

RemoteSteps == {"get_course", "get_assignments"}

\* The input the step tests is there: COURSE_ID (COURSEID or --course-id for
\* the prune script), or else course_config/defaults.json for get_course_id;
\* CANVAS_CREDENTIAL_FILE naming a file that defines API_KEY and API_URL.
InputThere(c) ==
    CASE c = "course_id" -> cfg.course_id
      [] c = "course_id_or_defaults" -> cfg.course_id \/ cfg.defaults
      [] c = "credentials" -> cfg.cred_path /\ cfg.cred_file = "ok"
      [] OTHER -> cfg.pages_dir

\* the next step of main's start
StartStep ==
    /\ pc = "startup"
    /\ step <= Len(Steps(script))
    /\ LET c == Steps(script)[step]
       IN  IF c \in RemoteSteps
           THEN /\ calls' = calls + 1
                /\ \/ step' = step + 1 /\ UNCHANGED pc
                   \/ \* the call raises: no configuration error
                      pc' = "remote_error" /\ UNCHANGED step
           ELSE /\ UNCHANGED calls
                /\ IF InputThere(c)
                   THEN step' = step + 1 /\ UNCHANGED pc
                   ELSE /\ UNCHANGED step
                        /\ pc' = IF c = "pages_dir" THEN "no_pages_dir" ELSE "config_error"
    /\ UNCHANGED <<local, remoteVars, pruneVars, modVars, runVars, rubVars, env, pipe,
                   watchVars,
                   cfg, script>>

\* the start is over: the script is at its loop over the folders
StartDone ==
    /\ pc = "startup"
    /\ step > Len(Steps(script))
    /\ pc' = "running"
    /\ UNCHANGED <<local, remoteVars, pruneVars, modVars, runVars, rubVars, pipeVars>>

----------------------------------------------------------------------------
(* The prune script run once from the command line, with any flags *)

PruneFolders ==
    {Meta("Page", "Intro"), Meta("Page", ""), Meta("assignment", "Intro"),
     Meta("Assignment", "Quiz"), BadMeta}

PageNames == {"Intro", "intro", "Quiz"}

AssignmentNames == {"Intro", "Quiz"}

\* The variables of the prune script before it runs.
PruneIdle ==
    /\ args = [apply |-> FALSE, include_assignments |-> FALSE]
    /\ extra = [pages |-> {}, assignments |-> {}]
    /\ iter = <<>>
    /\ deleteCalls = {}
    /\ deleteFailed = {}
    /\ reported = {}
    /\ listings = [pages |-> 0, assignments |-> 0]

\* The variables of sync_modules before it runs.
ModIdle ==
    /\ fidx = 1
    /\ mrest = <<>>
    /\ obj = NoItem
    /\ modCalls = [create_module |-> 0, create_item |-> 0]
    /\ warned = {}
    /\ held = 0
    /\ external = NoExternal

\* The variables of sync_rubrics before it runs.
RubIdle ==
    /\ ridx = 1
    /\ target = [id |-> 0, name |-> "", rubric_id |-> 0]
    /\ elapsed = 0
    /\ rubCalls = [create |-> 0, upload |-> 0, assoc |-> 0]
    /\ result = <<>>
    /\ rubStart = Len(rubrics)
    /\ resp = 0
    /\ request = NoRequest
    /\ outcome_map = [code \in OutcomeCodes |-> 0]

NoRubrics ==
    /\ rubrics = <<>>
    /\ assocs = <<>>
    /\ job = [id |-> 0, state |-> "none", rubric_id |-> 0]

\* A script past its start-up, with all its process-level inputs there.
NoStartup ==
    /\ cfg = [course_id |-> TRUE, defaults |-> FALSE, cred_path |-> TRUE,
              cred_file |-> "ok", pages_dir |-> TRUE]
    /\ script = ""
    /\ step = 1
    /\ calls = 0

\* No watcher: no events, no child processes.
NoWatch ==
    /\ events = <<>>
    /\ children = {}
    /\ present = {}
    /\ stepno = 1

NoPipeline ==
    /\ env = [prune |-> FALSE, apply |-> FALSE, assignments |-> FALSE]
    /\ pipe = <<>>
    /\ NoStartup
    /\ NoWatch

FirstRun ==
    /\ run = 1
    /\ entry = [prevDone |-> FALSE, prevClean |-> FALSE, renamed |-> 0]
    /\ since = 0

InitPrune ==
    /\ local \in SeqsUpTo(PruneFolders, MaxFolders)
    /\ pages \in {Numbered(s) : s \in SeqsUpTo(PageNames, MaxPages)}
    /\ assignments \in {Numbered(s) : s \in SeqsUpTo(AssignmentNames, MaxAssignments)}
    /\ args \in [apply : BOOLEAN, include_assignments : BOOLEAN]
    /\ pc = "prune_main"
    /\ extra = [pages |-> {}, assignments |-> {}]
    /\ iter = <<>>
    /\ deleteCalls = {}
    /\ deleteFailed = {}
    /\ reported = {}
    /\ listings = [pages |-> 0, assignments |-> 0]
    /\ files = <<>>
    /\ modules = <<>>
    /\ ModIdle
    /\ FirstRun
    /\ NoRubrics
    /\ strategy = "inline"
    /\ RubIdle
    /\ NoPipeline

NextPrune ==
    \/ PruneMain
    \/ DeleteExtraPagesBegin
    \/ DeletePage
    \/ DeleteExtraAssignmentsBegin
    \/ DeleteAssignment

SpecPrune == InitPrune /\ [][NextPrune]_vars

----------------------------------------------------------------------------
(* sync_modules run MaxRuns times against a course nothing else changes *)

PageFolder(name, mods, indent) ==
    [Blank EXCEPT !.ext = "page", !.type = "Page", !.name = name, !.modules = mods,
                  !.indent = indent]

AssignmentFolder(name, mods) ==
    [Blank EXCEPT !.ext = "assignment", !.type = "assignment", !.name = name,
                  !.modules = mods]

FileFolder(filename, title, mods) ==
    [Blank EXCEPT !.ext = "file", !.type = "File", !.filename = filename,
                  !.title = title, !.modules = mods]

LinkFolder(name, url, mods) ==
    [Blank EXCEPT !.ext = "link", !.type = "Link", !.name = name,
                  !.external_url = url, !.modules = mods]

ModFolders ==
    {PageFolder("Intro", <<"Week 1">>, 0),
     PageFolder("Intro", <<"Week 2", "Week 2">>, 1),
     PageFolder("", <<"Week 1">>, 0),
     PageFolder("Lost", <<"Week 3">>, 0),
     AssignmentFolder("Quiz", <<"Week 2">>),
     FileFolder("a.pdf", "", <<"Week 1">>),
     LinkFolder("Site", "http://site", <<"Week 2">>),
     NoMeta, BadMeta}

Syllabus == Item("Page", 1, 0, "", "Syllabus", 0)

Course(p, a, f, m) == [pages |-> p, assignments |-> a, files |-> f, modules |-> m]

Courses ==
    {Course(<<>>, <<>>, <<>>, <<>>),
     Course(Numbered(<<"Syllabus", "Intro">>), Numbered(<<"Quiz">>),
            Numbered(<<"a.pdf">>), <<[name |-> "Week 1", items |-> <<Syllabus>>]>>),
     Course(Numbered(<<"Syllabus", "Intro", "Intro">>), Numbered(<<"Quiz">>), <<>>,
            <<[name |-> "Week 1", items |-> <<Syllabus>>],
              [name |-> "Week 2", items |-> <<>>]>>),
     Course(Numbered(<<"Intro">>), <<>>, Numbered(<<"a.pdf">>),
            <<[name |-> "Week 2", items |-> <<>>],
              [name |-> "Week 2", items |-> <<>>]>>)}

InitModules ==
    /\ local \in SeqsUpTo(ModFolders, MaxContentDirs)
    /\ \E c \in Courses :
          /\ pages = c.pages
          /\ assignments = c.assignments
          /\ files = c.files
          /\ modules = c.modules
    /\ pc = "mod_folder"
    /\ PruneIdle
    /\ ModIdle
    /\ FirstRun
    /\ NoRubrics
    /\ strategy = "inline"
    /\ RubIdle
    /\ NoPipeline

NextModules ==
    \/ ModFolder
    \/ ModModule
    \/ ModNextRun
    \/ Rename

SpecModules == InitModules /\ [][NextModules]_vars

----------------------------------------------------------------------------
(* sync_modules run once while someone else adds items to the modules *)

InitExternal == InitModules

NextExternal ==
    \/ ModFolder
    \/ ModCheck
    \/ ModCreate
    \/ ExternalAdd

SpecExternal == InitExternal /\ [][NextExternal]_vars

----------------------------------------------------------------------------
(* sync_rubrics run MaxRuns times, under each of the three strategies *)

GoodSpec ==
    [st |-> "ok", title |-> "Essay Rubric",
     criteria |-> <<[description |-> "Organization", kind |-> "local", outcome_code |-> "",
                     points |-> 4,
                     ratings |-> <<[description |-> "Full", points |-> 4],
                                   [description |-> "None", points |-> 0]>>]>>,
     association |-> 0]

NoTitleSpec == [GoodSpec EXCEPT !.title = ""]

BadRubric == [NoRubric EXCEPT !.st = "bad"]

RubricFolder(name, rubric) ==
    [Blank EXCEPT !.ext = "assignment", !.type = "Assignment", !.name = name,
                  !.rubric = rubric]

RubFolders ==
    {RubricFolder("Quiz", GoodSpec), RubricFolder("Essay", GoodSpec),
     RubricFolder("Quiz", NoTitleSpec), RubricFolder("Quiz", BadRubric),
     RubricFolder("Quiz", NoRubric), RubricFolder("", GoodSpec),
     [RubricFolder("", GoodSpec) EXCEPT !.st = "missing"],
     [RubricFolder("", GoodSpec) EXCEPT !.st = "bad"]}

MaxRubricFolders == 2

InitRubrics ==
    /\ local \in SeqsUpTo(RubFolders, MaxRubricFolders)
    /\ pages = <<>>
    /\ assignments \in {<<>>, Numbered(<<"Quiz">>), Numbered(<<"Quiz", "Essay">>)}
    /\ files = <<>>
    /\ modules = <<>>
    /\ NoRubrics
    /\ strategy \in {"inline", "form", "upload"}
    /\ pc = "rub_folder"
    /\ RubIdle
    /\ PruneIdle
    /\ ModIdle
    /\ FirstRun
    /\ NoPipeline

NextRubrics ==
    \/ RubFolder
    \/ RubCreate
    \/ RubUpload
    \/ JobAdvance
    \/ RubPoll
    \/ RubAssociate
    \/ RubNextRun

SpecRubrics == InitRubrics /\ [][NextRubrics]_vars

\* The upload strategy alone, every iteration of the poll loop being carried
\* out: the status request returns and the sleep ends.
InitPoll == InitRubrics /\ strategy = "upload"

NextPoll ==
    \/ RubFolder
    \/ RubUpload
    \/ JobAdvance
    \/ RubPoll
    \/ RubAssociate
    \/ RubNextRun

SpecPoll == InitPoll /\ [][NextPoll]_vars /\ WF_vars(RubPoll)

----------------------------------------------------------------------------
(* sync_rubrics run on one assignment folder, under each strategy, for the *)
(* rubric specs a rubric.yaml can hold                                      *)

MaxCriteria == 2

\* the ratings of a criterion: none, two (summing to 7), one of them without
\* points, and more than the CSV has columns for
RatingLists ==
    {<<>>,
     <<[description |-> "Full", points |-> 4], [description |-> "Partial", points |-> 3]>>,
     <<[description |-> "Full", points |-> 4], [description |-> "None", points |-> -1]>>,
     <<[description |-> "A", points |-> 1], [description |-> "B", points |-> 2],
       [description |-> "C", points |-> 3], [description |-> "D", points |-> 4],
       [description |-> "E", points |-> 9]>>}

\* the criteria: local or outcome, the outcome ones with or without a code,
\* each with or without points of its own
Criteria ==
    {[description |-> "Organization", kind |-> "local", outcome_code |-> "",
      points |-> p, ratings |-> r] : p \in {-1, 10}, r \in RatingLists}
    \cup
    {[description |-> "Thesis", kind |-> "outcome", outcome_code |-> code,
      points |-> p, ratings |-> r] : code \in {"", "WRIT-1"}, p \in {-1, 10},
                                     r \in RatingLists}

\* association.id of the rubric spec: absent, or the id of the assignment
\* "Essay" (the latter with the specs of one criterion: the association
\* block and the criteria are read independently of each other)
AssociationIds == {0, 2}

InitRequest ==
    /\ \E criteria \in SeqsUpTo(Criteria, MaxCriteria) :
          /\ criteria # <<>>
          /\ \E association \in (IF Len(criteria) = 1 THEN AssociationIds ELSE {0}) :
                local = <<RubricFolder("Quiz", [GoodSpec EXCEPT !.criteria = criteria,
                                                               !.association = association])>>
    /\ pages = <<>>
    /\ assignments = Numbered(<<"Quiz", "Essay">>)
    /\ files = <<>>
    /\ modules = <<>>
    /\ NoRubrics
    /\ strategy \in {"inline", "form", "upload"}
    /\ pc = "rub_folder"
    /\ ridx = 1
    /\ target = [id |-> 0, name |-> "", rubric_id |-> 0]
    /\ elapsed = 0
    /\ rubCalls = [create |-> 0, upload |-> 0, assoc |-> 0]
    /\ result = <<>>
    /\ rubStart = 0
    /\ resp = 0
    /\ request = NoRequest
    /\ outcome_map \in {[code \in OutcomeCodes |-> 0],
                        [code \in OutcomeCodes |-> IF code = "WRIT-1" THEN 7 ELSE 0]}
    /\ PruneIdle
    /\ ModIdle
    /\ FirstRun
    /\ NoPipeline

NextRequest ==
    \/ RubFolder
    \/ RubCreate
    \/ RubUpload
    \/ JobAdvance
    \/ RubPoll
    \/ RubAssociate

SpecRequest == InitRequest /\ [][NextRequest]_vars

----------------------------------------------------------------------------
(* The pipeline run MaxRuns times on an unchanged tree *)

PipeFolders ==
    {PageFolder("Intro", <<"Week 1">>, 0),
     [RubricFolder("Quiz", GoodSpec) EXCEPT !.modules = <<"Week 2">>]}

PipeCourses ==
    {Course(Numbered(<<"Syllabus", "Intro">>), Numbered(<<"Quiz">>), <<>>,
            <<[name |-> "Week 1", items |-> <<Syllabus>>]>>),
     Course(Numbered(<<"Syllabus", "Extra">>), Numbered(<<"Quiz", "Essay", "Old">>), <<>>,
            <<>>)}

\* run_pipeline uses the apply and assignments variables only when the
\* prune variable is truthy.
PipeEnvs ==
    {e \in [prune : BOOLEAN, apply : BOOLEAN, assignments : BOOLEAN] :
        ~e.prune => (~e.apply /\ ~e.assignments)}

InitPipeline ==
    /\ local \in SeqsUpTo(PipeFolders, MaxContentDirs)
    /\ \E c \in PipeCourses :
          /\ pages = c.pages
          /\ assignments = c.assignments
          /\ files = c.files
          /\ modules = c.modules
    /\ NoRubrics
    /\ strategy = "inline"
    /\ env \in PipeEnvs
    /\ pipe = <<>>
    /\ NoStartup
    /\ NoWatch
    /\ pc = "mod_folder"
    /\ RubIdle
    /\ PruneIdle
    /\ ModIdle
    /\ FirstRun

\* run_pipeline runs the sync_rubrics.py next to it, the inline one.
\* parse_args rejects "--prune", which run_pipeline always passes: the prune
\* script's steps after parse_args are no steps of a pipeline run.
NextPipeline ==
    \/ ModFolder
    \/ ModModule
    \/ PipeRubrics
    \/ RubFolder
    \/ RubCreate
    \/ PipePrune
    \/ PipeNextRun

SpecPipeline == InitPipeline /\ [][NextPipeline]_vars

----------------------------------------------------------------------------
(* The watcher while file events arrive *)

\* the scripts next to watch_and_publish.py: all of them, the ones under
\* src/, and all but the prune script
ScriptSets ==
    {Range(steps) \cup {prune_script},
     (Range(steps) \cup {prune_script}) \ {"sync_clo_via_csv.py", "sync_quiz_banks.py"},
     Range(steps)}

InitWatch ==
    /\ local = <<>>
    /\ pages = <<>>
    /\ assignments = <<>>
    /\ files = <<>>
    /\ modules = <<>>
    /\ NoRubrics
    /\ strategy = "inline"
    /\ RubIdle
    /\ PruneIdle
    /\ ModIdle
    /\ run = 0
    /\ entry = [prevDone |-> FALSE, prevClean |-> FALSE, renamed |-> 0]
    /\ since = 0
    /\ env \in [prune : BOOLEAN, apply : BOOLEAN, assignments : BOOLEAN]
    /\ pipe = <<>>
    /\ NoStartup
    /\ events = <<>>
    /\ children = {}
    /\ present \in ScriptSets
    /\ stepno = EndStepNo
    /\ pc = "watching"

NextWatch ==
    \/ FileEvent
    \/ on_any_event
    \/ RunStep
    \/ RunPrune
    \/ ChildExits
    \/ StepReturns
    \/ PipelineComplete

SpecWatch == InitWatch /\ [][NextWatch]_vars

\* The watcher with its threads and child processes going on: the observer
\* thread takes the next event when it is back at its queue, run_pipeline
\* goes from one statement to the next, and every child process exits.
\* Nothing is required of the file events.
SpecWatchLive ==
    /\ SpecWatch
    /\ WF_vars(on_any_event)
    /\ WF_vars(RunStep)
    /\ WF_vars(RunPrune)
    /\ WF_vars(ChildExits)
    /\ WF_vars(StepReturns)
    /\ WF_vars(PipelineComplete)

----------------------------------------------------------------------------
(* Each script started once, under every combination of its inputs *)

InitStartup ==
    /\ local = <<>>
    /\ pages = <<>>
    /\ assignments = <<>>
    /\ files = <<>>
    /\ modules = <<>>
    /\ NoRubrics
    /\ strategy = "inline"
    /\ RubIdle
    /\ PruneIdle
    /\ ModIdle
    /\ FirstRun
    /\ env = [prune |-> FALSE, apply |-> FALSE, assignments |-> FALSE]
    /\ pipe = <<>>
    /\ NoWatch
    /\ cfg \in [course_id : BOOLEAN, defaults : BOOLEAN, cred_path : BOOLEAN,
                cred_file : {"absent", "no_keys", "ok"}, pages_dir : BOOLEAN]
    /\ script \in Scripts
    /\ step = 1
    /\ calls = 0
    /\ pc = "startup"

NextStartup ==
    \/ StartStep
    \/ StartDone

SpecStartup == InitStartup /\ [][NextStartup]_vars

----------------------------------------------------------------------------
(* Claims about the prune script *)

PageTitles(set) == {c.name : c \in {d \in set : d.kind = "page"}}

AssignmentTitles(set) == {c.name : c \in {d \in set : d.kind = "assignment"}}

ExtraPageObjects == {p \in Range(pages) : p.name \notin load_local_names.pages}

ExtraAssignmentObjects ==
    {a \in Range(assignments) : a.name \notin load_local_names.assignments}

C2_ScopedPruning ==
    /\ []((args.apply /\ ~args.include_assignments) =>
            \A c \in deleteCalls : c.kind = "page")
    /\ [][(args.apply /\ ~args.include_assignments) => assignments' = assignments]_vars

C2_Witness ==
    /\ pc = "prune_done"
    /\ args.apply
    /\ ~args.include_assignments
    /\ ExtraAssignmentObjects # {}
    /\ \E c \in deleteCalls : c.kind = "page"

\* C3: with apply set, a delete is attempted only on objects whose name is no
\* local name of their kind (exact string comparison), and once the run has
\* ended every such page (and, with include-assignments, assignment) has had
\* its delete attempted: the ones still listed are the ones whose delete failed.
C3_PruneTargetsExactlyExtras ==
    /\ \A c \in deleteCalls :
          /\ c.kind = "page" => c.name \notin load_local_names.pages
          /\ c.kind = "assignment" => c.name \notin load_local_names.assignments
    /\ (args.apply /\ pc = "prune_done") =>
          /\ \A p \in ExtraPageObjects :
                [kind |-> "page", id |-> p.id, name |-> p.name] \in deleteFailed
          /\ args.include_assignments =>
                \A a \in ExtraAssignmentObjects :
                   [kind |-> "assignment", id |-> a.id, name |-> a.name] \in deleteFailed

\* A remote page "intro" beside the local page "Intro" was deleted, and a remote
\* page "Intro" was kept.
C3_Witness ==
    /\ pc = "prune_done"
    /\ args.apply
    /\ "Intro" \in load_local_names.pages
    /\ \E p \in Range(pages) : p.name = "Intro"
    /\ \E c \in deleteCalls \ deleteFailed : c.kind = "page" /\ c.name = "intro"

\* C4: in apply mode a failed delete does not end the batch: when the run has
\* ended, a delete was attempted on every extra page that is still listed, and
\* with include-assignments on every extra assignment still listed, whichever
\* deletes failed.
C4_PruneFaultIsolation ==
    (args.apply /\ pc = "prune_done") =>
        /\ \A p \in Range(pages) : p.name \in extra.pages =>
              \E c \in deleteCalls : c.kind = "page" /\ c.id = p.id
        /\ args.include_assignments =>
              \A a \in Range(assignments) : a.name \in extra.assignments =>
                 \E c \in deleteCalls : c.kind = "assignment" /\ c.id = a.id

\* A delete failed and an object later in the same listing was then deleted.
C4_Witness ==
    /\ pc = "prune_done"
    /\ \E f \in deleteFailed :
          \E c \in deleteCalls \ deleteFailed : c.kind = f.kind /\ c.id > f.id

----------------------------------------------------------------------------
(* Claims about sync_modules *)

NoModCalls == [create_module |-> 0, create_item |-> 0]

IsPrefix(a, b) == Len(a) <= Len(b) /\ SubSeq(b, 1, Len(a)) = a

ModuleNames(mods) == {mods[i].name : i \in DOMAIN mods}

UniqueNames(mods) == \A i, j \in DOMAIN mods : mods[i].name = mods[j].name => i = j

SameTarget(a, b) ==
    /\ a.type = b.type
    /\ a.page_url = b.page_url
    /\ a.content_id = b.content_id
    /\ a.external_url = b.external_url

\* The items a step added to module m.
Added(m) ==
    IF m \in DOMAIN modules
    THEN SubSeq(modules'[m].items, Len(modules[m].items) + 1, Len(modules'[m].items))
    ELSE modules'[m].items

\* C5: a run of sync_modules that follows a run which went through all the
\* folders, with nothing changed in between, issues no create-module and no
\* create-module-item call.
C5_ModuleSyncIdempotent ==
    (run >= 2 /\ entry.prevDone /\ entry.renamed = 0) => modCalls = NoModCalls

\* The second run went through all the folders of a tree whose items the first
\* run had placed.
C5_Witness ==
    /\ run = 2
    /\ entry.prevDone
    /\ entry.renamed = 0
    /\ pc = "mod_done"
    /\ modCalls = NoModCalls
    /\ \E m \in DOMAIN modules :
          \E i \in DOMAIN modules[m].items : modules[m].items[i] # Syllabus

\* C8: an item is created in a module only when the module holds no item of
\* the same type and identity key, whatever the titles; and in the run after
\* a folder's display title was changed with its identity key left as it was,
\* no create-module-item call is issued for that folder.
C8_IdentityBasedMembership ==
    /\ [][\A m \in DOMAIN modules' :
            \A i \in DOMAIN Added(m) :
               m \in DOMAIN modules =>
                  \A j \in DOMAIN modules[m].items :
                     ~SameTarget(modules[m].items[j], Added(m)[i])]_vars
    /\ [][(/\ run >= 2 /\ entry.prevDone /\ entry.renamed # 0
              /\ pc = "mod_module" /\ fidx = entry.renamed) =>
             modCalls' = modCalls]_vars

\* The renamed folder was processed again, its item being in the module under
\* the old title.
C8_Witness ==
    /\ run = 2
    /\ entry.prevDone
    /\ entry.renamed # 0
    /\ fidx > entry.renamed
    /\ \E m \in DOMAIN modules :
          \E i \in DOMAIN modules[m].items :
             /\ SameTarget(modules[m].items[i], obj)
             /\ modules[m].items[i].title # obj.title
             /\ obj.title = NewTitle

\* C9: no step of a run removes, changes or moves a module or a module item:
\* every module keeps its place and name, and its items before the step are
\* the first items after it, so a new item comes after all of them.
C9_AppendOnlyPlacement ==
    [][/\ Len(modules) <= Len(modules')
       /\ \A m \in DOMAIN modules :
             /\ modules'[m].name = modules[m].name
             /\ IsPrefix(modules[m].items, modules'[m].items)]_vars

\* Module "Week 1" held "Syllabus" and now holds "Syllabus" followed by the
\* item of page "Intro".
C9_Witness ==
    /\ pc = "mod_done"
    /\ \E m \in DOMAIN modules :
          /\ modules[m].name = "Week 1"
          /\ Len(modules[m].items) = 2
          /\ modules[m].items[1] = Syllabus
          /\ modules[m].items[2].type = "Page"
          /\ modules[m].items[2].title = "Intro"

\* C10: a module is created only under a name no module has, so module names
\* that are unique stay unique.
C10_FindOrCreateModule ==
    /\ [][\A m \in DOMAIN modules' :
            m \notin DOMAIN modules => modules'[m].name \notin ModuleNames(modules)]_vars
    /\ [][UniqueNames(modules) => UniqueNames(modules')]_vars

\* Two folders, one of them listing it twice, declared the new module
\* "Week 2": it was created once and holds the items of both.
C10_Witness ==
    /\ run = 1
    /\ pc = "mod_done"
    /\ modCalls.create_module = 1
    /\ UniqueNames(modules)
    /\ \E m \in DOMAIN modules :
          /\ modules[m].name = "Week 2"
          /\ Len(modules[m].items) = 2
    /\ \E i \in DOMAIN local : local[i].modules = <<"Week 2", "Week 2">>

----------------------------------------------------------------------------
(* Claims about sync_rubrics and the pipeline *)

NumOk(res) == Cardinality({i \in DOMAIN res : res[i] = "ok"})

MutatingCalls ==
    modCalls.create_module + modCalls.create_item + rubCalls.create + rubCalls.upload
        + rubCalls.assoc + Cardinality(deleteCalls)

C7_Original == pc = "rub_done" => Len(rubrics) - rubStart = NumOk(result)

\* C7, amended: no step removes or changes a remote rubric, each new one
\* comes after the ones there; during a run the number of rubrics has grown
\* by at least the number of folders processed successfully so far, and on
\* the inline and form strategies by exactly that number.
C7_RubricGrowth ==
    /\ [][IsPrefix(rubrics, rubrics')]_vars
    /\ [](Len(rubrics) - rubStart >= NumOk(result))
    /\ [](strategy # "upload" => Len(rubrics) - rubStart = NumOk(result))

\* A repeated sync has created a rubric for a folder the sync before had
\* created one for.
C7_Witness ==
    /\ run = 2
    /\ pc = "rub_done"
    /\ rubStart >= 1
    /\ NumOk(result) >= 1
    /\ Len(rubrics) > rubStart

----------------------------------------------------------------------------
(* Claims about sync_modules: errors *)

\* The folder's descriptor names a page, assignment or file that the course
\* does not have.
NamesMissingObject(f) ==
    /\ f.st = "ok"
    /\ Plan(f) = "find"
    /\ CASE Lower(f.type) = "page" -> \A i \in DOMAIN pages : pages[i].name # f.name
         [] Lower(f.type) = "assignment" ->
              \A i \in DOMAIN assignments : assignments[i].name # f.name
         [] OTHER -> \A i \in DOMAIN files : files[i].name # f.filename

\* C11: the step that handles a folder naming a page, assignment or file the
\* course does not have (its lookup not raising) warns about the folder,
\* creates no object, no module and no module item, and goes on to the next
\* folder; so a run that ends normally has warned about every such folder.
C11_MissingRemoteObject ==
    /\ [][(/\ pc = "mod_folder"
           /\ fidx <= Len(content_dirs)
           /\ NamesMissingObject(content_dirs[fidx])
           /\ pc' # "mod_aborted") =>
             /\ warned' = warned \cup {fidx}
             /\ remoteVars' = remoteVars
             /\ modCalls' = modCalls
             /\ fidx' = fidx + 1
             /\ pc' = "mod_folder"]_vars
    /\ [](pc = "mod_done" /\ since = 0 =>
             \A i \in DOMAIN content_dirs :
                NamesMissingObject(content_dirs[i]) => i \in warned)

\* The run warned about a folder whose object is missing and then placed the
\* item of a later folder.
C11_Witness ==
    /\ run = 1
    /\ pc = "mod_done"
    /\ since = 0
    /\ modCalls.create_item >= 1
    /\ pages # <<>>
    /\ \E i \in warned :
          /\ NamesMissingObject(content_dirs[i])
          /\ content_dirs[i].name = "Lost"
          /\ \E j \in DOMAIN content_dirs :
                j > i /\ j \notin warned /\ Plan(content_dirs[j]) \in {"find", "place"}

----------------------------------------------------------------------------
(* Claims about sync_rubrics: the rubric and its association *)

C13_AssociationOrdering ==
    pc = "rub_assoc" =>
        /\ rubCalls.upload >= 1
        /\ job.id = 100 + ridx
        /\ job.state \in ImportedStates
        /\ target.rubric_id = job.rubric_id
        /\ \E i \in DOMAIN rubrics : rubrics[i].id = target.rubric_id

----------------------------------------------------------------------------
(* Claims about sync_rubrics: the poll loop *)

\* The step is an iteration of the poll loop.
PollStep == pc = "rub_poll" /\ rubVars' # rubVars

NonTerminal(state) == state \notin ImportedStates \cup FailedStates

\* The outcome of the folder a step has finished.
Reported == result'[Len(result')]

\* C14: an iteration of the poll loop whose status request is answered with
\* status 200 reports a timeout exactly when the job is in no terminal state
\* and the deadline has passed, and a failure exactly when the job is in a
\* failed state, whatever the time.
C14_TimeoutVersusFailure ==
    [][PollStep =>
         /\ (pc' = "rub_folder" /\ Reported = "timeout") =>
               /\ NonTerminal(job.state)
               /\ \E d \in Latencies : elapsed + d > PollTimeout
         /\ (pc' = "rub_folder" /\ Reported = "job_failed") => job.state \in FailedStates
         /\ job.state \in FailedStates =>
               pc' = "rub_folder" /\ Reported \in {"job_failed", "status_error"}
         /\ (NonTerminal(job.state) /\ \A d \in Latencies : elapsed + d > PollTimeout) =>
               pc' = "rub_folder" /\ Reported \in {"timeout", "status_error"}]_vars

\* One folder's job was in no terminal state when the deadline passed, the
\* other's had failed: a timeout and a failure were reported.
C14_Witness ==
    /\ pc = "rub_done"
    /\ result = <<"timeout", "job_failed">>
    /\ job.state = "failed"

\* C15: a poll loop that has begun ends, whatever states the job goes
\* through or stays in: with the way to the association call, with a
\* failure, a status error or a timeout; and while it runs no more than the
\* timeout and one sleep have gone by.
C15_PollTermination ==
    /\ (pc = "rub_poll") ~> (pc # "rub_poll")
    /\ [](pc = "rub_poll" => elapsed <= PollTimeout + PollInterval)
    /\ [][(PollStep /\ pc' # "rub_poll") =>
             \/ pc' = "rub_assoc"
             \/ /\ pc' = "rub_folder"
                /\ Reported \in {"no_rubric_id", "job_failed", "status_error", "timeout"}]_vars

\* A loop ended by the timeout, the job never having left its first state.
C15_Witness ==
    /\ pc = "rub_done"
    /\ result = <<"timeout">>
    /\ job.state = "pending"

----------------------------------------------------------------------------
(* Claims about sync_rubrics: errors *)

JobFailures == {"upload_failed", "job_failed", "timeout", "assoc_failed"}

\* C16: a step of the upload, the poll loop or the association call never
\* ends the run: when it ends its folder, with whatever outcome, the next
\* folder is taken up; every folder before the current one has its outcome,
\* and a run that was not aborted at the start of a folder has gone through
\* all the folders.
C16_JobFailuresNonFatal ==
    /\ [][(pc \in {"rub_upload", "rub_poll", "rub_assoc"} /\ rubVars' # rubVars) =>
             /\ pc' \in {"rub_poll", "rub_assoc", "rub_folder"}
             /\ pc' = "rub_folder" =>
                   ridx' = ridx + 1 /\ Len(result') = Len(result) + 1]_vars
    /\ [](pc \notin {"rub_done", "rub_aborted"} => Len(result) = ridx - 1)
    /\ [](pc = "rub_done" => Len(result) = Len(assignment_folders))

\* The first folder's job failed in one of the four ways and the second
\* folder got its rubric and association.
C16_Witness ==
    /\ strategy = "upload"
    /\ pc = "rub_done"
    /\ Len(result) = 2
    /\ result[1] \in JobFailures
    /\ result[2] = "ok"

\* The rubric spec lacks its title, has no criteria, or has a criterion
\* without description, points or ratings.
Malformed(spec) ==
    /\ spec.st = "ok"
    /\ \/ spec.title = ""
       \/ spec.criteria = <<>>
       \/ \E i \in DOMAIN spec.criteria :
             \/ spec.criteria[i].description = ""
             \/ spec.criteria[i].points = -1
             \/ spec.criteria[i].ratings = <<>>

\* C17: no create or upload call is reached for a folder whose rubric spec
\* is malformed, and no such folder is processed successfully.
C17_MalformedSpecPerItem ==
    /\ pc \in {"rub_create", "rub_upload"} => ~Malformed(assignment_folders[ridx].rubric)
    /\ \A i \in DOMAIN result :
          Malformed(assignment_folders[i].rubric) => result[i] # "ok"

\* C18: no error met while a content folder is processed ends the run of
\* sync_modules: the run is never aborted, and until it is done every folder
\* before the current one has been dealt with and the current one is next.
C18_PerItemErrorPropagation ==
    /\ pc # "mod_aborted"
    /\ pc = "mod_done" => fidx = Len(content_dirs) + 1

----------------------------------------------------------------------------
(* Claims about the start of the scripts *)

\* C19: a script that ends with a configuration error (course id,
\* credential file path or credential file missing) has issued no remote
\* call.
C19_ConfigurationErrorsFirst == pc = "config_error" => calls = 0

\* sync_modules found COURSE_ID and then no credential file, and ended.
C19_Witness ==
    /\ pc = "config_error"
    /\ script = "sync_modules"
    /\ cfg.course_id
    /\ cfg.cred_path
    /\ cfg.cred_file = "absent"
    /\ step = 2

----------------------------------------------------------------------------
(* Claims about sync_rubrics: the response to the create request *)

\* a step of create_rubric_via_api
CreateStep == strategy = "form" /\ rubCalls'.create = rubCalls.create + 1

\* C20: create_rubric_via_api returns the created result exactly on status
\* 200 or 201; 401 and 403 give the permission error, 404 the not-found
\* error, 422 the validation error and every other status the generic one;
\* the error is kind for the folder and the run goes on to the next
\* folder.
C20_CreateErrorClassification ==
    [][CreateStep =>
          LET kind == result'[Len(result')]
          IN  /\ Len(result') = Len(result) + 1
              /\ kind = "ok" <=> resp' \in {200, 201}
              /\ resp' \in {401, 403} => kind = "permission"
              /\ resp' = 404 => kind = "not_reachable"
              /\ resp' = 422 => kind = "validation"
              /\ resp' \notin {200, 201, 401, 403, 404, 422} => kind = "unexpected"
              /\ pc' = "rub_folder"
              /\ ridx' = ridx + 1]_vars

\* Status 403 was reported for the first folder as a permission error, and
\* the run is at the second folder.
C20_Witness ==
    /\ strategy = "form"
    /\ pc = "rub_folder"
    /\ resp = 403
    /\ result = <<"permission">>
    /\ ridx = 2
    /\ Len(assignment_folders) = 2

----------------------------------------------------------------------------
(* Claims about sync_rubrics: what the request carries *)

\* the rubric spec of the one folder of SpecRequest
TheSpec == local[1].rubric

\* the request for the folder has been sent
Sent == request # NoRequest

\* an outcome criterion whose code the outcome map does not resolve
Unresolved(crit) ==
    crit.kind = "outcome" /\ crit.outcome_code # "" /\ outcome_map[crit.outcome_code] = 0

\* the warnings of the request that are about criterion i
WarningsAbout(i) == {k \in DOMAIN request.warnings : request.warnings[k] = i}

\* C21: an outcome criterion whose code is not in the outcome map is sent
\* with the other criteria, without outcome linkage and with its ratings,
\* and exactly one warning is printed for it (inline and upload).
C21_OutcomeFallback ==
    (Sent /\ strategy \in {"inline", "upload"}) =>
        /\ Len(request.criteria) = Len(TheSpec.criteria)
        /\ \A i \in DOMAIN TheSpec.criteria :
              Unresolved(TheSpec.criteria[i]) =>
                 /\ request.criteria[i].learning_outcome_id = 0
                 /\ request.criteria[i].ratings = SentRatings(TheSpec.criteria[i].ratings)
                 /\ Cardinality(WarningsAbout(i)) = 1

\* an outcome criterion whose code the outcome map resolves
Resolved(crit) ==
    crit.kind = "outcome" /\ crit.outcome_code # "" /\ outcome_map[crit.outcome_code] # 0

\* the folder of SpecRequest has been processed, with success
Processed == pc = "rub_folder" /\ ridx = 2 /\ result = <<"ok">>

\* C22: for a spec of one local criterion and one outcome criterion with a
\* resolvable code, a successful run has sent two criteria, the outcome one
\* with the mapped outcome id, and left exactly one new association, to the
\* assignment the folder names (inline and upload).
C22_OutcomeAlignmentScenario ==
    (/\ Processed
     /\ strategy \in {"inline", "upload"}
     /\ Len(TheSpec.criteria) = 2
     /\ \E i, j \in DOMAIN TheSpec.criteria :
           TheSpec.criteria[i].kind = "local" /\ Resolved(TheSpec.criteria[j]))
    => /\ Len(request.criteria) = 2
       /\ \A j \in DOMAIN TheSpec.criteria :
             Resolved(TheSpec.criteria[j]) =>
                request.criteria[j].learning_outcome_id
                   = outcome_map[TheSpec.criteria[j].outcome_code]
       /\ Len(assocs) = 1
       /\ assocs[1].association_id = FindByName(assignments, local[1].name)

\* C23: a criterion that declares points is sent with exactly these points,
\* whatever its ratings are.
C23_PointsAuthority ==
    Sent =>
       \A i \in DOMAIN TheSpec.criteria :
          TheSpec.criteria[i].points # -1 =>
             request.criteria[i].points = TheSpec.criteria[i].points

\* the greatest of the points of the ratings, as the spec declares them
\* (a rating without points counting 0), 0 for no ratings
GreatestRating(ratings) ==
    IF ratings = <<>> THEN 0
    ELSE CHOOSE m \in {RatingPoints(ratings[j]) : j \in DOMAIN ratings} :
            \A j \in DOMAIN ratings : RatingPoints(ratings[j]) <= m

----------------------------------------------------------------------------
(* Claims about sync_rubrics: partial success *)

\* a step of create_rubric_association that fails
AssociationFails ==
    /\ pc = "rub_assoc"
    /\ rubCalls'.assoc = rubCalls.assoc + 1
    /\ result' = Append(result, "assoc_failed")

\* C25: when the association call fails after the upload job created the
\* rubric, that rubric is still on the remote service, nothing is deleted
\* or changed there, and the folder is reported as failed; no step of the
\* run removes or changes a rubric.
C25_NoRollback ==
    /\ [][AssociationFails =>
             /\ \E k \in DOMAIN rubrics' : rubrics'[k].id = job.rubric_id
             /\ rubrics' = rubrics
             /\ assocs' = assocs
             /\ pc' = "rub_folder"
             /\ ridx' = ridx + 1]_vars
    /\ [][\A k \in DOMAIN rubrics : k \in DOMAIN rubrics' /\ rubrics'[k] = rubrics[k]]_vars

\* The first folder's rubric was created and its association failed; the
\* run is at the second folder.
C25_Witness ==
    /\ strategy = "upload"
    /\ pc = "rub_folder"
    /\ ridx = 2
    /\ result = <<"assoc_failed">>
    /\ job.state = "imported"
    /\ Len(rubrics) = rubStart + 1
    /\ assocs = <<>>

----------------------------------------------------------------------------
(* Claims about the watcher *)

\* a pipeline run starts
RunStarts == run' = run + 1

\* the run the log is about has carried out all its steps
RunOver ==
    /\ stepno = EndStepNo
    /\ \A k \in DOMAIN pipe : pipe[k].exit # "running"

\* C26: whatever file events arrive, also during a run, the child processes
\* running at any time are of one run, the run in progress, and a run
\* starts only when the run before it has carried out all its steps and
\* none of its children is running.
C26_SerializedRuns ==
    /\ [](\A child \in children : child.run = run)
    /\ [](Cardinality(children) <= 1)
    /\ [][RunStarts => (pc = "watching" /\ children = {} /\ RunOver)]_vars

\* An event that starts a run is queued while sync_modules.py of the first
\* run is running.
C26_Witness ==
    /\ run = 1
    /\ pc = "in_step"
    /\ children = {[run |-> 1, script |-> "sync_modules.py"]}
    /\ events # <<>>
    /\ Reacts(Head(events))

\* the prune script was started in this pipeline run
PruneStarted == \E k \in DOMAIN pipe : pipe[k].script = "prune_canvas_content"

\* C27: in a finished pipeline run the prune script was started exactly
\* when ZAPHOD_PRUNE is truthy, and it then worked with apply exactly when
\* ZAPHOD_PRUNE_APPLY is truthy and with assignments exactly when
\* ZAPHOD_PRUNE_ASSIGNMENTS is truthy.
C27_WatcherPruneConfiguration ==
    pc = "pipe_done" =>
       /\ PruneStarted <=> env.prune
       /\ env.prune =>
             /\ \A k \in DOMAIN pipe : pipe[k].exit # "usage"
             /\ args.apply = env.apply
             /\ args.include_assignments = env.assignments

\* the order of the steps as the watcher documents it
PipelineOrder ==
    <<"frontmatter_to_meta.py", "publish_all.py", "sync_modules.py", "sync_clo_via_csv.py",
      "sync_rubrics.py", "sync_quiz_banks.py", "prune_canvas_content.py">>

\* a child process starts
ChildStarts == \E child \in children' : child \notin children

\* C28: the steps of a run are taken in the order frontmatter_to_meta,
\* publish_all, sync_modules, sync_clo_via_csv, sync_rubrics,
\* sync_quiz_banks, prune; a step starts only when every earlier one has
\* exited; and a run ends, the watcher back at its events, with every step
\* taken, the scripts that exist having run whatever the exit of the others.
C28_PipelineStepOrder ==
    /\ [](\A k \in DOMAIN pipe : k <= Len(PipelineOrder) /\ pipe[k].script = PipelineOrder[k])
    /\ [][ChildStarts =>
             (children = {} /\ \A k \in DOMAIN pipe : pipe[k].exit # "running")]_vars
    /\ []((pc = "watching" /\ run >= 1) =>
             /\ Len(pipe) = IF env.prune THEN 7 ELSE 6
             /\ \A k \in DOMAIN pipe :
                   IF pipe[k].script \in present
                   THEN pipe[k].exit \in {"ok", "failed", "usage"}
                   ELSE pipe[k].exit = "missing")

\* A run is over in which sync_modules.py failed, sync_clo_via_csv.py was
\* missing and sync_rubrics.py ran after them.
C28_Witness ==
    /\ pc = "watching"
    /\ run = 1
    /\ Len(pipe) >= 6
    /\ pipe[3].exit = "failed"
    /\ pipe[4].exit = "missing"
    /\ pipe[5].exit = "ok"

----------------------------------------------------------------------------
(* Claims about the loaders *)

\* a folder whose meta.json does not parse, or lacks the type, or lacks the
\* name where sync_modules needs it (a file item is named by its filename)
Unusable(f) ==
    \/ f.st = "bad"
    \/ /\ f.st = "ok"
       /\ \/ f.type = ""
          \/ Lower(f.type) \in {"page", "assignment", "link"} /\ f.name = ""

\* C29: a folder whose metadata is unparsable or lacks name or type never
\* ends the run of sync_modules: it is skipped with a warning.
C29_LoaderPerItemFailure ==
    /\ pc = "mod_aborted" => ~Unusable(content_dirs[fidx])
    /\ pc \in {"mod_folder", "mod_module", "mod_done"} =>
          \A i \in DOMAIN content_dirs :
             (i < fidx /\ Unusable(content_dirs[i])) => i \in warned

----------------------------------------------------------------------------
(* Claims about sync_rubrics: the single request of the inline path *)

\* the outcomes of a folder for which the create request was sent
CreateResults == {"ok", "create_failed", "permission", "not_reachable", "validation", "unexpected"}

\* the folders of this run for which the create request was sent
Requested == {i \in DOMAIN result : result[i] \in CreateResults}

\* C30: without the upload job (inline, form) a folder causes at most one
\* mutating request, exactly one when it gets as far as the request; the
\* request carries the rubric and its association, and every rubric on the
\* remote service has its association.
C30_InlineAtomicity ==
    /\ [](strategy # "upload" =>
             /\ rubCalls.upload = 0 /\ rubCalls.assoc = 0
             /\ rubCalls.create = Cardinality(Requested)
             /\ Len(assocs) = Len(rubrics)
             /\ \A k \in DOMAIN rubrics : assocs[k].rubric_id = rubrics[k].id)
    /\ [][(strategy # "upload" /\ rubCalls'.create = rubCalls.create + 1) =>
             /\ request'.association
             /\ request'.criteria # <<>>
             /\ Len(rubrics') - Len(rubrics) = Len(assocs') - Len(assocs)]_vars

\* The inline run has created two rubrics, one request each, both with
\* their associations.
C30_Witness ==
    /\ strategy = "inline"
    /\ pc = "rub_done"
    /\ result = <<"ok", "ok">>
    /\ rubCalls.create = 2
    /\ Len(rubrics) = rubStart + 2
    /\ Len(assocs) = Len(rubrics)

----------------------------------------------------------------------------
(* Claims about sync_rubrics: the object the association points at *)

\* the remote assignment whose name is the name in the folder's meta.json
NamedAssignment == FindByName(assignments, local[1].name)

\* C31: every rubric association created for the assignment folder has the
\* association type Assignment and points at the remote assignment whose
\* name is the name in the folder's meta.json, whatever the rubric spec holds.
C31_AssociationTarget ==
    \A k \in DOMAIN assocs :
       /\ assocs[k].association_type = "Assignment"
       /\ assocs[k].association_id = NamedAssignment

----------------------------------------------------------------------------
(* Claims about the prune script: the remote listings *)

\* C32: within one run of the prune script each remote listing is requested
\* at most once: the pages and the assignments are not listed again between
\* the computation of the extra names and the delete calls.
C32_RemoteSnapshot ==
    /\ listings.pages <= 1
    /\ listings.assignments <= 1

----------------------------------------------------------------------------
(* Claims about sync_rubrics: the order of the tests in the poll loop *)

\* The deadline has passed when the next status request is answered,
\* however fast the answer comes.
DeadlinePassed == \A d \in Latencies : Elapsed(elapsed, d) > PollTimeout

\* C33: the poll loop is left only by an iteration, which begins with a
\* status request; the iteration looks at the state the job reports before
\* it looks at the clock: an imported job is accepted and a failed job
\* reported as failed also after the deadline, and a timeout is reported
\* only for a job seen in a state that is neither.
C33_PollCheckOrder ==
    /\ [][(pc = "rub_poll" /\ pc' # "rub_poll") => PollStep]_vars
    /\ [][(PollStep /\ pc' # "rub_poll") =>
             /\ job.state \in ImportedStates =>
                   \/ pc' = "rub_assoc"
                   \/ pc' = "rub_folder" /\ Reported \in {"no_rubric_id", "status_error"}
             /\ job.state \in FailedStates =>
                   pc' = "rub_folder" /\ Reported \in {"job_failed", "status_error"}
             /\ (pc' = "rub_folder" /\ Reported = "timeout") => NonTerminal(job.state)]_vars

\* The loop has gone through two iterations and slept twice; the job is
\* imported and the deadline will have passed when the third status request
\* is answered.
C33_Witness ==
    /\ pc = "rub_poll"
    /\ job.state \in ImportedStates
    /\ elapsed > 0
    /\ DeadlinePassed

----------------------------------------------------------------------------
(* Claims about sync_rubrics: the folders no remote call is issued for *)

\* The folder has a rubric file that parses, a meta.json that parses and has
\* a name, and that name is the name of a remote assignment.
Eligible(f) ==
    /\ f.rubric.st = "ok"
    /\ f.st = "ok"
    /\ f.name # ""
    /\ \E i \in DOMAIN assignments : assignments[i].name = f.name

\* how process_assignment_folder ends for a folder it returns early from
EarlyReturns == {"skip", "no_meta", "no_name", "not_found", "parse"}

\* the folders of the run taken up so far
TakenUp == {i \in DOMAIN assignment_folders : i <= ridx}

\* C34: under every strategy a create request, an upload or an association
\* call is issued only for a folder with a parsable rubric file and a
\* meta.json whose name is that of a remote assignment; a folder without
\* one of these ends with an early return, and the run has issued at most
\* one create or upload per folder that has them all.
C34_NoOrphanRubricWork ==
    /\ [](pc \in {"rub_create", "rub_upload", "rub_poll", "rub_assoc"} =>
             Eligible(assignment_folders[ridx]))
    /\ [][(pc \in {"rub_create", "rub_upload", "rub_assoc"} /\ rubCalls' # rubCalls) =>
             Eligible(assignment_folders[ridx])]_vars
    /\ [](\A i \in DOMAIN result :
             ~Eligible(assignment_folders[i]) => result[i] \in EarlyReturns)
    /\ [](/\ rubCalls.create + rubCalls.upload <=
                Cardinality({i \in TakenUp : Eligible(assignment_folders[i])})
          /\ rubCalls.assoc <= rubCalls.upload)

\* The first folder names an assignment the course does not have and ended
\* without a call; the second got its rubric with the run's only request.
C34_Witness ==
    /\ pc = "rub_done"
    /\ result = <<"not_found", "ok">>
    /\ ~Eligible(assignment_folders[1])
    /\ rubCalls.create + rubCalls.upload = 1
    /\ Len(rubrics) = rubStart + 1

----------------------------------------------------------------------------
(* Claims about sync_modules: duplicate items *)

\* The module holds an item with the target of `item`.
HasTarget(module, item) ==
    \E i \in DOMAIN module.items : SameTarget(module.items[i], item)

\* No module holds two items of the same type and identity key.
NoDuplicates ==
    \A m \in DOMAIN modules :
       \A i, j \in DOMAIN modules[m].items :
          SameTarget(modules[m].items[i], modules[m].items[j]) => i = j

\* The step is a create_module_item call that succeeds.
CreateItemStep == pc = "mod_create" /\ pc' = "mod_module"

\* C35: as long as no one else has added an item, no module holds two items
\* of the same type and identity key, also when two folders declare the same
\* object for a module or a folder lists a module twice; and the script
\* creates an item the module already holds only when someone else has added
\* that item between the membership check and the create call.
C35_NoDuplicateModuleItems ==
    /\ [](external.adds = 0 => NoDuplicates)
    /\ [][(CreateItemStep /\ HasTarget(modules[held], obj)) => external.raced]_vars

\* Someone else added the item after module_has_item had answered no, and
\* the script then created it again: the module holds it twice.
C35_Witness ==
    /\ external.raced
    /\ modCalls.create_item >= 1
    /\ pc = "mod_module"
    /\ \E m \in DOMAIN modules :
          \E i, j \in DOMAIN modules[m].items :
             /\ i < j
             /\ j = Len(modules[m].items)
             /\ SameTarget(modules[m].items[i], modules[m].items[j])
             /\ modules[m].items[j] = obj

----------------------------------------------------------------------------
(* Claims about the prune script: what is left when it has ended *)

\* The names of the local descriptors of a kind that were loaded: meta.json
\* parsed and has a name.
Loaded(kind) ==
    {local[i].name : i \in {j \in DOMAIN local : /\ local[j].st = "ok"
                                                 /\ local[j].name # ""
                                                 /\ Lower(local[j].type) = kind}}

\* The run with apply and include-assignments has ended and no delete failed.
PrunedClean ==
    /\ pc = "prune_done"
    /\ args.apply
    /\ args.include_assignments
    /\ deleteFailed = {}

\* C36: when a prune run with apply and include-assignments has ended and no
\* delete call has failed, every remote page left has the name of a loaded
\* local page descriptor and every assignment left the name of a loaded local
\* assignment descriptor; no object deleted had such a name, and an object
\* deleted is gone, as is every other object of its title.
C36_PrunePostCondition ==
    PrunedClean =>
        /\ \A q \in Range(pages) : q.name \in Loaded("page")
        /\ \A a \in Range(assignments) : a.name \in Loaded("assignment")
        /\ \A c \in deleteCalls :
              /\ c.name \notin Loaded(c.kind)
              /\ c.kind = "page" => \A q \in Range(pages) : q.name # c.name /\ q.id # c.id
              /\ c.kind = "assignment" =>
                    \A a \in Range(assignments) : a.name # c.name /\ a.id # c.id

\* Two remote pages with one extra title were both deleted, the local page
\* descriptor being one that was not loaded.
C36_Witness ==
    /\ PrunedClean
    /\ local # <<>>
    /\ Loaded("page") = {}
    /\ pages = <<>>
    /\ \E c, d \in deleteCalls :
          c.kind = "page" /\ d.kind = "page" /\ c.name = d.name /\ c.id # d.id

----------------------------------------------------------------------------
(* Claims about the watcher: from a file event to its run *)

\* The event is a modification or a creation of a file.
Triggers(event) == event.is_directory = FALSE /\ event.event_type \in {"modified", "created"}

\* The observer thread takes the first queued event.
Taken == events # <<>> /\ events' = Tail(events)

\* the number of events among the first i queued that start a run
TriggersUpTo(i) == Cardinality({j \in 1..i : j \in DOMAIN events /\ Triggers(events[j])})

\* the number of pipeline runs that have ended
Completed == IF pc = "watching" THEN run ELSE run - 1

\* C37: a queued file event stays queued, behind the ones before it, until
\* the observer thread takes it, also while a run is in progress; taking a
\* modification or creation of a file starts one pipeline run, taking any
\* other event starts none, and a run starts in no other way; and if the
\* observer thread, run_pipeline and the child processes go on, every such
\* event is followed by the end of the run it started.
C37_ChangeToRunResponse ==
    /\ [][events' # events =>
             \/ Taken /\ pc = "watching"
             \/ \E event \in FileEvents : events' = Append(events, event)]_vars
    /\ [][Taken =>
             IF Triggers(Head(events))
             THEN run' = run + 1 /\ pc' = "pipeline" /\ stepno' = 1 /\ pipe' = <<>>
             ELSE run' = run /\ pc' = pc /\ stepno' = stepno /\ pipe' = pipe]_vars
    /\ [][run' # run => (Taken /\ Triggers(Head(events)) /\ run' = run + 1)]_vars
    /\ \A i \in 1..MaxEvents, k \in 1..MaxRuns :
          (i \in DOMAIN events /\ Triggers(events[i]) /\ run + TriggersUpTo(i) = k)
             ~> (Completed >= k)

\* Two runs have ended, the second started by an event queued during the
\* first or after it, and a directory event is waiting to be taken.
C37_Witness ==
    /\ pc = "watching"
    /\ run = 2
    /\ RunOver
    /\ events = <<[is_directory |-> TRUE, event_type |-> "modified"]>>

----------------------------------------------------------------------------
(* Claims about sync_rubrics: the rows of the CSV *)

\* the columns of the CSV: Criterion, Description, Points and a pair for
\* each of Rating 1 .. Rating 4
Columns == 11

\* C38: the upload renders one row of 11 fields per criterion: description,
\* long description, points, then the description and points of each of the
\* criterion's first four ratings and empty fields for the slots left; a
\* fifth and later rating is in no field, while the points of a criterion
\* that declares none are the greatest points among all its ratings.
C38_CsvRowShape ==
    (Sent /\ strategy = "upload") =>
        /\ Len(request.rows) = Len(TheSpec.criteria)
        /\ \A i \in DOMAIN TheSpec.criteria :
              LET row == request.rows[i]
                  crit == TheSpec.criteria[i]
              IN  /\ Len(row) = Columns
                  /\ row[1] = crit.description
                  /\ row[3] = IF crit.points # -1 THEN crit.points
                              ELSE GreatestRating(crit.ratings)
                  /\ \A j \in 1..4 :
                        IF j <= Len(crit.ratings)
                        THEN /\ row[2 + 2 * j] = crit.ratings[j].description
                             /\ row[3 + 2 * j] = RatingPoints(crit.ratings[j])
                        ELSE /\ row[2 + 2 * j] = ""
                             /\ row[3 + 2 * j] = ""

\* A row was sent whose criterion points, defaulted from a fifth rating,
\* are greater than the points of each of the four ratings in the row.
C38_Witness ==
    /\ Sent
    /\ strategy = "upload"
    /\ \E i \in DOMAIN TheSpec.criteria :
          /\ TheSpec.criteria[i].points = -1
          /\ Len(TheSpec.criteria[i].ratings) > 4
          /\ \A j \in 1..4 : request.rows[i][3] > request.rows[i][3 + 2 * j]

====
